---- MODULE Spec2Model ----
(***************************************************************************)
(* Synchronization core of the SPARCd web server: the named lock kept in   *)
(* the db_locks table (spd_database/spdsqlite.py), the collection snapshot *)
(* cache (sparcd_db.py, spdsqlite.py) and the orchestrators that use them  *)
(* (sparcd_collections.py, sparcd.py).                                     *)
(*                                                                         *)
(* Every SQL statement is one atomic step (SQLite serialises statements);  *)
(* the callers are request threads that interleave between statements.     *)
(***************************************************************************)
EXTENDS Integers, Sequences, FiniteSets, TLC

\* ------------------------------------------------------------------ bounds
\* Number of concurrent request threads.
NumCallers == 2
\* Number of collections (buckets) the origin may hold.
NumColls == 1
\* Number of clock advances a behaviour may take.
MaxTicks == 1
\* Number of rows the collections table of a function check may hold.
MaxRows == 3
\* Greatest age, in seconds, of a row and greatest timeout of a function check.
MaxAge == 3
MaxElev == 3            \* filter values and upload elevations 0..MaxElev (and 1000 feet)
MaxImages == 2          \* images of the first upload of a filter_uploads call

\* The entries of one permissions file.
MaxPerms == 2

\* The species_stats calls of one run.
MaxCalls == 2

\* --------------------------------------------------------------- constants
\* sparcd_db.py: a lock older than this many seconds is abandoned.
MAX_LOCK_WAIT_TIME_SEC == 120
\* lock_get: int(datetime.now().timestamp() * 1000)
MsPerSec == 1000

\* spdsqlite.py:1844: the attempts of lock_get's write after which it sleeps a second.
LOCK_WRITE_RETRIES == 10

\* sparcd_collections.py: 12 * 60 * 60
TIMEOUT_COLLECTIONS_SEC == 43200
\* sparcd.py: 12 * 60 * 60
TEMP_SPECIES_STATS_FILE_TIMEOUT_SEC == 43200
\* sparcd_collections.py: polls of a caller that lost the fetch_collection lock
MAX_COLL_FETCH_TRIES == 10
\* sparcd.py: polls of a caller that lost the species_stats lock
MAX_STAT_FETCH_TRIES == 10
\* sparcd_collections.py: 5 * 60, the total of the sleeps of the wait loop
MAX_COLL_FETCH_WAIT_SEC == 300
\* sparcd.py: 5 * 60
TIMEOUT_UPLOADS_SEC == 10800
MAX_STAT_FETCH_WAIT_SEC == 300

\* SQL NULL / Python None.
NULL == 0 - 1
\* Python None and a value that is not None, for values that are not integers.
None == <<>>
Some(v) == <<v>>

\* lock_get left by an exception that is not caught (int(None) in the read-back).
RAISED == 0 - 2

Callers == 1..NumCallers
CollIds == 1..NumColls
LockNames == {"fetch_collection", "species_stats"}

VARIABLES
    now,        \* wall clock, whole seconds: strftime("%s", "now")
    ms,         \* wall clock, milliseconds inside the second
    db_locks,   \* the db_locks table in rowid order: rows [name, value, timestamp]
    lk,         \* per caller: the frame of its running lock_get call
    lock_id,    \* per caller and lock name: the token its get_lock returned
    pc,         \* per caller: where the thread is in its request
    fetched,    \* per caller: it has invoked S3Connection.get_collections
    op,         \* per caller: "coll" (load_collections) or "stats" (load_species_stats)
    tries,      \* per caller: the tries counter of its wait loop
    slept,      \* per caller: when the time.sleep of its wait loop began (ms)
    exc,        \* per caller: an exception is propagating out of its call
    loaded_colls,   \* per caller: loaded_colls of load_collections (None, or the payloads)
    loaded_stats,   \* per caller: loaded_stats of load_species_stats (None, or the stats)
    save_ret,       \* per caller: what its save_collections call returned
    collections,    \* the collections table of the one s3_id: rows [coll_id, json, timestamp]
    last_writer,    \* the caller whose save_collections committed last (0: nobody)
    stats_file,     \* the species stats temp file: None (absent) or Some([data, timestamp])
    uploads,        \* the unexpired rows of the uploads table of the one s3_id: [bucket, json]
    table_timeout,  \* the rows [name, timestamp] of table_timeout, in the checks of the
                    \* expiry of uploads, where uploads holds the expired rows as well
    upload_images,  \* the rows [uploads_id, key] of the upload_images table
    fn_in,          \* the arguments of the one function call a function check makes
    fn_out          \* what that call gave: None (not called yet) or Some(result)

\* What the lock steps leave alone.
locals == <<op, tries, slept, exc, loaded_colls, loaded_stats, save_ret>>
stores == <<collections, last_writer, stats_file, uploads, table_timeout, upload_images>>
call == <<fn_in, fn_out>>
vars == <<now, ms, db_locks, lk, lock_id, pc, fetched, op, tries, slept, exc,
          loaded_colls, loaded_stats, save_ret, collections, last_writer, stats_file,
          uploads, table_timeout, upload_images, fn_in, fn_out>>

\* ------------------------------------------------------------------- clock
\* Time advances by one millisecond, by exactly one abandonment period, or by
\* one second more than that.
TickSteps == {MAX_LOCK_WAIT_TIME_SEC, MAX_LOCK_WAIT_TIME_SEC + 1}

\* The clock advances taken to reach second t and millisecond m.
TicksUsed(t, m) == ((t - 1) \div MAX_LOCK_WAIT_TIME_SEC) + m

TickMs ==
    /\ TicksUsed(now, ms + 1) <= MaxTicks
    /\ \E c \in Callers : pc[c] # "done"
    /\ ms' = ms + 1
    /\ UNCHANGED <<call, now, db_locks, lk, lock_id, pc, fetched, locals, stores>>

TickSec ==
    \E dt \in TickSteps :
        /\ TicksUsed(now + dt, ms) <= MaxTicks
        /\ \E c \in Callers : pc[c] # "done"
        /\ now' = now + dt
        /\ UNCHANGED <<call, ms, db_locks, lk, lock_id, pc, fetched, locals, stores>>

\* --------------------------------------------------------- the named lock
\* The clock in milliseconds.
NowMs == (now * MsPerSec) + ms

\* lock_value = int(datetime.datetime.now(datetime.UTC).timestamp() * 1000)
LockValue == NowMs

RowIdx(name) == {i \in 1..Len(db_locks) : db_locks[i].name = name}

\* cursor.fetchone() of 'SELECT value FROM db_locks WHERE name=?': the row of
\* that name with the least rowid.
FirstIdx(name) == CHOOSE i \in RowIdx(name) : \A j \in RowIdx(name) : i <= j
FirstRow(name) == db_locks[FirstIdx(name)]

\* Variant: the WHERE clause without the abandonment test.
UpdMatches_NullOnly(row, name, max_lock_sec) ==
    row.name = name /\ row.value = NULL

\* Variant: a lock is abandoned as soon as its age reaches max_lock_sec.
UpdMatches_AtLimit(row, name, max_lock_sec) ==
    /\ row.name = name
    /\ \/ row.value = NULL
       \/ (row.timestamp # NULL /\ now - row.timestamp >= max_lock_sec)

\* WHERE name=? AND (value IS NULL OR strftime("%s","now")-timestamp > ?)
UpdMatches(row, name, max_lock_sec) ==
    /\ row.name = name
    /\ \/ row.value = NULL
       \/ (row.timestamp # NULL /\ now - row.timestamp > max_lock_sec)

\* A lock_get frame: pc is the statement to run next; at is the clock of its
\* UPDATE or INSERT; err records that it printed an sqlite error; rel is what
\* the release_lock of the token it returned found ("hit" or "miss").
NoFrame == [pc |-> "none", name |-> "", max_lock_sec |-> 0, lock_value |-> NULL,
            lock_exists |-> FALSE, ret |-> NULL, at |-> NULL, err |-> FALSE, rel |-> "-"]

\* Entry of lock_get: the token is taken from the clock.
LockGetFrame(name, max_lock_sec) ==
    [pc |-> "count", name |-> name, max_lock_sec |-> max_lock_sec,
     lock_value |-> LockValue, lock_exists |-> FALSE, ret |-> NULL, at |-> NULL,
     err |-> FALSE, rel |-> "-"]

\* SPARCdDatabase.get_lock with its default max_lock_sec.
GetLockFrame(name) == LockGetFrame(name, MAX_LOCK_WAIT_TIME_SEC)

\* 'SELECT count(1) FROM db_locks WHERE name=?'
LockCount(c) ==
    /\ lk[c].pc = "count"
    /\ lk' = [lk EXCEPT ![c].lock_exists = (RowIdx(lk[c].name) # {}),
                        ![c].pc = "write"]
    /\ UNCHANGED <<call, now, ms, db_locks, lock_id, pc, fetched, locals, stores>>

\* The table after the conditional UPDATE of lock_get.
UpdatedLocks(name, max_lock_sec, lock_value) ==
    [i \in 1..Len(db_locks) |->
        IF UpdMatches(db_locks[i], name, max_lock_sec)
        THEN [db_locks[i] EXCEPT !.value = lock_value, !.timestamp = now]
        ELSE db_locks[i]]

\* The table after the INSERT of lock_get.
InsertedLocks(name, lock_value) ==
    Append(db_locks, [name |-> name, value |-> lock_value, timestamp |-> now])

\* cursor.rowcount of the UPDATE.
UpdRowCount(name, max_lock_sec) ==
    Cardinality({i \in 1..Len(db_locks) : UpdMatches(db_locks[i], name, max_lock_sec)})

\* Where a thread continues when its get_lock call has returned ret.
AfterGetLock(at, o, ret) ==
    CASE at = "drv_lock" -> IF ret \in {NULL, RAISED} THEN "done" ELSE "drv_hold"
      [] at = "coll_lock" ->
            IF ret = RAISED THEN (IF o = "stats" THEN "stats_finally" ELSE "done")
            ELSE IF ret = NULL THEN "coll_wait" ELSE "coll_fetch"
      [] at = "stats_lock" ->
            IF ret = RAISED THEN "done"
            ELSE IF ret = NULL THEN "stats_wait" ELSE "lc_start"
      [] OTHER -> at

\* The frame of a call that has returned: popped; the callers of the bare lock
\* keep it as the record of what the call did.
FrameAfterReturn(at, frame, ret, err) ==
    IF at = "drv_lock" THEN [frame EXCEPT !.pc = "none", !.ret = ret, !.err = err]
    ELSE NoFrame

\* lock_get returns ret to the caller, which stores it in lock_id.
LockReturn(c, frame, ret, err) ==
    /\ lk' = [lk EXCEPT ![c] = FrameAfterReturn(pc[c], frame, ret, err)]
    /\ lock_id' = [lock_id EXCEPT ![c][lk[c].name] = IF ret = RAISED THEN NULL ELSE ret]
    /\ pc' = [pc EXCEPT ![c] = AfterGetLock(pc[c], op[c], ret)]
    /\ fetched' = [fetched EXCEPT ![c] = @ \/ AfterGetLock(pc[c], op[c], ret) = "coll_fetch"]
    /\ exc' = [exc EXCEPT ![c] = @ \/ ret = RAISED]
    /\ slept' = [slept EXCEPT ![c] =
                    IF AfterGetLock(pc[c], op[c], ret) \in {"coll_wait", "stats_wait"}
                    THEN NowMs ELSE @]
    /\ UNCHANGED <<op, tries, loaded_colls, loaded_stats, save_ret, stores>>

\* The UPDATE or INSERT, the commit and the rowcount test.
LockWrite(c) ==
    /\ lk[c].pc = "write"
    /\ LET f == lk[c]
           rowcount == IF f.lock_exists THEN UpdRowCount(f.name, f.max_lock_sec) ELSE 1
       IN  /\ db_locks' = IF f.lock_exists
                          THEN UpdatedLocks(f.name, f.max_lock_sec, f.lock_value)
                          ELSE InsertedLocks(f.name, f.lock_value)
           /\ IF rowcount > 0
              THEN /\ lk' = [lk EXCEPT ![c].pc = "read", ![c].at = NowMs]
                   /\ UNCHANGED <<lock_id, pc, fetched, locals, stores>>
              ELSE LockReturn(c, [f EXCEPT !.at = NowMs], NULL, FALSE)
    /\ UNCHANGED <<call, now, ms>>

\* sqlite3.OperationalError on every one of the eleven attempts: return None.
LockBusy(c) ==
    /\ lk[c].pc = "write"
    /\ LockReturn(c, lk[c], NULL, TRUE)
    /\ UNCHANGED <<call, now, ms, db_locks>>

\* The value lock_get returns from the read-back row.
ReadBackResult(row_value, lock_value) ==
    IF row_value = NULL THEN RAISED
    ELSE IF row_value = lock_value THEN row_value ELSE NULL

\* 'SELECT value FROM db_locks WHERE name=?' and the comparison.
LockReadBack(c) ==
    /\ lk[c].pc = "read"
    /\ LockReturn(c, lk[c], ReadBackResult(FirstRow(lk[c].name).value, lk[c].lock_value),
                  FALSE)
    /\ UNCHANGED <<call, now, ms, db_locks>>

\* sqlite3.Error in the read-back: return None.
LockReadErr(c) ==
    /\ lk[c].pc = "read"
    /\ LockReturn(c, lk[c], NULL, TRUE)
    /\ UNCHANGED <<call, now, ms, db_locks>>

\* Variant: the release without the value test.
LockReleased_AnyToken(name, value) ==
    [i \in 1..Len(db_locks) |->
        IF db_locks[i].name = name
        THEN [db_locks[i] EXCEPT !.value = NULL, !.timestamp = NULL]
        ELSE db_locks[i]]

\* Variant: the release clears the token and leaves the timestamp.
LockReleased_KeepTimestamp(name, value) ==
    [i \in 1..Len(db_locks) |->
        IF db_locks[i].name = name /\ value # NULL /\ db_locks[i].value = value
        THEN [db_locks[i] EXCEPT !.value = NULL]
        ELSE db_locks[i]]

\* 'UPDATE db_locks SET value=NULL,timestamp=NULL WHERE name=? AND value=?'
LockReleased(name, value) ==
    [i \in 1..Len(db_locks) |->
        IF db_locks[i].name = name /\ value # NULL /\ db_locks[i].value = value
        THEN [db_locks[i] EXCEPT !.value = NULL, !.timestamp = NULL]
        ELSE db_locks[i]]

\* SPARCdDatabase.release_lock: nothing happens for a falsy lock_id.
ReleaseLock(name, id) ==
    IF id = NULL \/ id = 0 THEN db_locks ELSE LockReleased(name, id)

LockStep(c) ==
    \/ LockCount(c)
    \/ LockWrite(c)
    \/ LockBusy(c)
    \/ LockReadBack(c)
    \/ LockReadErr(c)

\* ------------------------------------------------- callers of the bare lock
\* The threads are interchangeable: they start their requests in index order.
StartsInOrder(c) == \A d \in Callers : d < c => pc[d] # "idle"

\* A thread calls get_lock(name).
DrvGet(c) ==
    \E n \in LockNames :
        /\ pc[c] = "idle"
        /\ StartsInOrder(c)
        /\ lk' = [lk EXCEPT ![c] = GetLockFrame(n)]
        /\ pc' = [pc EXCEPT ![c] = "drv_lock"]
        /\ UNCHANGED <<call, now, ms, db_locks, lock_id, fetched, locals, stores>>

\* A thread that was given a token calls release_lock(name, token).
DrvRelease(c) ==
    \E n \in LockNames :
        /\ pc[c] = "drv_hold"
        /\ lock_id[c][n] # NULL
        /\ db_locks' = ReleaseLock(n, lock_id[c][n])
        /\ lock_id' = [lock_id EXCEPT ![c][n] = NULL]
        /\ pc' = [pc EXCEPT ![c] = "done"]
        /\ lk' = [lk EXCEPT ![c].rel =
                    IF \E i \in RowIdx(n) : db_locks[i].value = lock_id[c][n]
                    THEN "hit" ELSE "miss"]
        /\ UNCHANGED <<call, now, ms, fetched, locals, stores>>

\* ------------------------------------------------------ snapshot store
\* Variant: a row expires only when its age exceeds the timeout.
GetAllCollections_Gt(timeout_sec) ==
    IF collections = {} THEN None
    ELSE IF \E r \in collections : now - r.timestamp > timeout_sec THEN None
    ELSE Some({r.json : r \in collections})

\* SPARCdDatabase.get_all_collections: None for an empty row set or when one
\* row has reached the timeout, else the payloads of all rows.
GetAllCollections(timeout_sec) ==
    IF collections = {} THEN None
    ELSE IF \E r \in collections : now - r.timestamp >= timeout_sec THEN None
    ELSE Some({r.json : r \in collections})

\* Variant: the save keeps the rows that have not expired and writes the others.
SavedCollections_Merge(colls) ==
    LET kept == {r \in collections : now - r.timestamp < TIMEOUT_COLLECTIONS_SEC}
    IN  kept \cup {[coll_id |-> id, json |-> id, timestamp |-> now] :
                      id \in colls \ {r.coll_id : r \in kept}}

\* SPDSQLite.save_collections: DELETE the rows of the s3_id, INSERT the new ones
\* with the current time, commit.
SavedCollections(colls) ==
    {[coll_id |-> id, json |-> id, timestamp |-> now] : id \in colls}

\* Python truthiness of a loaded list.
Truthy(v) == v # None /\ v[1] # {}

\* sparcd_file_utils.load_timed_info: the data of a file that has not expired.
LoadTimedInfo(timeout_sec) ==
    IF stats_file = None THEN None
    ELSE IF now - stats_file[1].timestamp > timeout_sec THEN None
    ELSE Some(stats_file[1].data)

\* load_timed_info unlinks an expired file.
FileAfterLoad(timeout_sec) ==
    IF stats_file # None /\ now - stats_file[1].timestamp > timeout_sec THEN None
    ELSE stats_file

\* time.sleep(k * interval) that began at ms time since has returned, where
\* interval = max_wait_sec / ((max_tries + 1) * max_tries / 2).
SleepOver(since, k, max_wait_sec, max_tries) ==
    (NowMs - since) * (((max_tries + 1) * max_tries) \div 2) >= k * max_wait_sec * MsPerSec

\* ------------------------------------------------------ load_collections
\* Where a thread continues when load_collections is over (returned or raised).
AfterLoadCollections(o, raised) ==
    IF o = "stats" THEN (IF raised THEN "stats_finally" ELSE "stats_gen") ELSE "done"

\* load_collections, first statement: the cache check. A fresh cache is
\* returned; a cold one with credentials calls get_lock('fetch_collection').
LCCheck(c) ==
    /\ \/ pc[c] = "idle" /\ StartsInOrder(c) /\ op' = [op EXCEPT ![c] = "coll"]
       \/ pc[c] = "lc_start" /\ UNCHANGED op
    /\ LET cached == GetAllCollections(TIMEOUT_COLLECTIONS_SEC)
       IN  IF Truthy(cached)
           THEN /\ loaded_colls' = [loaded_colls EXCEPT ![c] = cached]
                /\ pc' = [pc EXCEPT ![c] = AfterLoadCollections(op'[c], FALSE)]
                /\ UNCHANGED lk
           ELSE /\ lk' = [lk EXCEPT ![c] = GetLockFrame("fetch_collection")]
                /\ pc' = [pc EXCEPT ![c] = "coll_lock"]
                /\ UNCHANGED loaded_colls
    /\ UNCHANGED <<call, now, ms, db_locks, lock_id, fetched, tries, slept, exc, loaded_stats,
                   save_ret, stores>>

\* load_collections without s3_url, user_name or fetch_password: the origin is
\* not asked, whatever the cache holds is the answer.
LCNoCreds(c) ==
    /\ pc[c] = "idle"
    /\ StartsInOrder(c)
    /\ op' = [op EXCEPT ![c] = "coll"]
    /\ loaded_colls' = [loaded_colls EXCEPT ![c] = GetAllCollections(TIMEOUT_COLLECTIONS_SEC)]
    /\ pc' = [pc EXCEPT ![c] = "done"]
    /\ UNCHANGED <<call, now, ms, db_locks, lk, lock_id, fetched, tries, slept, exc, loaded_stats,
                   save_ret, stores>>

\* What S3Connection.get_collections may return: the collections are
\* interchangeable, so the origin holds the first k of them.
OriginColls == {1..k : k \in 0..NumColls}

\* Variant: the lock is released where the rows should be saved.
CollSave_ReleaseFirst(c) ==
    /\ pc[c] = "coll_fetch"
    /\ db_locks' = ReleaseLock("fetch_collection", lock_id[c]["fetch_collection"])
    /\ lock_id' = [lock_id EXCEPT ![c]["fetch_collection"] = NULL]
    /\ loaded_colls' = [loaded_colls EXCEPT ![c] = Some(CollIds)]
    /\ pc' = [pc EXCEPT ![c] = "coll_release"]
    /\ UNCHANGED <<call, now, ms, lk, fetched, op, tries, slept, exc, loaded_stats, save_ret, stores>>

\* Fetching: S3Connection.get_collections returns, the collections are
\* normalised and save_all_collections replaces the rows.
CollSave(c) ==
    \E got \in OriginColls :
        /\ pc[c] = "coll_fetch"
        /\ loaded_colls' = [loaded_colls EXCEPT ![c] = Some(got)]
        /\ collections' = SavedCollections(got)
        /\ last_writer' = c
        /\ save_ret' = [save_ret EXCEPT ![c] = "True"]
        /\ pc' = [pc EXCEPT ![c] = "coll_release"]
        /\ UNCHANGED <<call, now, ms, db_locks, lk, lock_id, fetched, op, tries, slept, exc,
                       loaded_stats, stats_file, uploads, table_timeout, upload_images>>

\* save_collections gives up (SQLITE_BUSY ten times, or an sqlite3.Error in the
\* DELETE or the INSERT): rollback, False is returned and ignored.
CollSaveFail(c) ==
    \E got \in OriginColls :
        /\ pc[c] = "coll_fetch"
        /\ loaded_colls' = [loaded_colls EXCEPT ![c] = Some(got)]
        /\ save_ret' = [save_ret EXCEPT ![c] = "False"]
        /\ pc' = [pc EXCEPT ![c] = "coll_release"]
        /\ UNCHANGED <<call, now, ms, db_locks, lk, lock_id, fetched, op, tries, slept, exc,
                       loaded_stats, stores>>

\* Variant: an exception leaves load_collections without the finally clause.
CollRaise_NoFinally(c) ==
    /\ pc[c] = "coll_fetch"
    /\ exc' = [exc EXCEPT ![c] = TRUE]
    /\ loaded_colls' = [loaded_colls EXCEPT ![c] = None]
    /\ pc' = [pc EXCEPT ![c] = AfterLoadCollections(op[c], TRUE)]
    /\ UNCHANGED <<call, now, ms, db_locks, lk, lock_id, fetched, op, tries, slept, loaded_stats,
                   save_ret, stores>>

\* The origin fetch, normalize_collection or json.dumps raises: control goes
\* to the finally clause.
CollRaise(c) ==
    /\ pc[c] = "coll_fetch"
    /\ exc' = [exc EXCEPT ![c] = TRUE]
    /\ loaded_colls' = [loaded_colls EXCEPT ![c] = None]
    /\ pc' = [pc EXCEPT ![c] = "coll_release"]
    /\ UNCHANGED <<call, now, ms, db_locks, lk, lock_id, fetched, op, tries, slept, loaded_stats,
                   save_ret, stores>>

\* db.release_lock('fetch_collection', lock_id): line 74, or line 91 in the
\* finally clause when an exception is propagating.
CollRelease(c) ==
    /\ pc[c] = "coll_release"
    /\ db_locks' = ReleaseLock("fetch_collection", lock_id[c]["fetch_collection"])
    /\ lock_id' = [lock_id EXCEPT ![c]["fetch_collection"] = NULL]
    /\ pc' = [pc EXCEPT ![c] = AfterLoadCollections(op[c], exc[c])]
    /\ UNCHANGED <<call, now, ms, lk, fetched, locals, stores>>

\* Variant: the wait loop tests tries <= MAX_COLL_FETCH_TRIES.
CollPoll_OneMore(c) ==
    /\ pc[c] = "coll_wait"
    /\ SleepOver(slept[c], tries[c] + 1, MAX_COLL_FETCH_WAIT_SEC, MAX_COLL_FETCH_TRIES)
    /\ LET cached == GetAllCollections(TIMEOUT_COLLECTIONS_SEC)
           t == IF Truthy(cached) THEN tries[c] + 1 + MAX_COLL_FETCH_TRIES ELSE tries[c] + 1
       IN  /\ loaded_colls' = [loaded_colls EXCEPT ![c] = cached]
           /\ tries' = [tries EXCEPT ![c] = IF t <= MAX_COLL_FETCH_TRIES THEN t ELSE 0]
           /\ slept' = [slept EXCEPT ![c] = IF t <= MAX_COLL_FETCH_TRIES THEN NowMs ELSE 0]
           /\ pc' = [pc EXCEPT ![c] = IF t <= MAX_COLL_FETCH_TRIES THEN "coll_wait"
                                      ELSE AfterLoadCollections(op[c], FALSE)]
    /\ UNCHANGED <<call, now, ms, db_locks, lk, lock_id, fetched, op, exc, loaded_stats, save_ret,
                   stores>>

\* Variant: a poll that finds the snapshot does not end the loop.
CollPoll_KeepPolling(c) ==
    /\ pc[c] = "coll_wait"
    /\ SleepOver(slept[c], tries[c] + 1, MAX_COLL_FETCH_WAIT_SEC, MAX_COLL_FETCH_TRIES)
    /\ LET cached == GetAllCollections(TIMEOUT_COLLECTIONS_SEC)
           t == tries[c] + 1
       IN  /\ loaded_colls' = [loaded_colls EXCEPT ![c] = cached]
           /\ tries' = [tries EXCEPT ![c] = IF t < MAX_COLL_FETCH_TRIES THEN t ELSE 0]
           /\ slept' = [slept EXCEPT ![c] = IF t < MAX_COLL_FETCH_TRIES THEN NowMs ELSE 0]
           /\ pc' = [pc EXCEPT ![c] = IF t < MAX_COLL_FETCH_TRIES THEN "coll_wait"
                                      ELSE AfterLoadCollections(op[c], FALSE)]
    /\ UNCHANGED <<call, now, ms, db_locks, lk, lock_id, fetched, op, exc, loaded_stats, save_ret,
                   stores>>

\* Variant: a waiting caller that finds the cache cold fetches and saves.
CollPoll_Refetch(c) ==
    /\ pc[c] = "coll_wait"
    /\ SleepOver(slept[c], tries[c] + 1, MAX_COLL_FETCH_WAIT_SEC, MAX_COLL_FETCH_TRIES)
    /\ fetched' = [fetched EXCEPT ![c] = TRUE]
    /\ loaded_colls' = [loaded_colls EXCEPT ![c] = Some(CollIds)]
    /\ collections' = SavedCollections(CollIds)
    /\ last_writer' = c
    /\ save_ret' = [save_ret EXCEPT ![c] = "True"]
    /\ tries' = [tries EXCEPT ![c] = 0]
    /\ slept' = [slept EXCEPT ![c] = 0]
    /\ pc' = [pc EXCEPT ![c] = AfterLoadCollections(op[c], FALSE)]
    /\ UNCHANGED <<call, now, ms, db_locks, lk, lock_id, op, exc, loaded_stats, stats_file, uploads, table_timeout, upload_images>>

\* Waiting: one turn of the loop of a caller that did not get the lock:
\* tries += 1, sleep, get_all_collections.
CollPoll(c) ==
    /\ pc[c] = "coll_wait"
    /\ SleepOver(slept[c], tries[c] + 1, MAX_COLL_FETCH_WAIT_SEC, MAX_COLL_FETCH_TRIES)
    /\ LET cached == GetAllCollections(TIMEOUT_COLLECTIONS_SEC)
           t == IF Truthy(cached) THEN tries[c] + 1 + MAX_COLL_FETCH_TRIES ELSE tries[c] + 1
       IN  /\ loaded_colls' = [loaded_colls EXCEPT ![c] = cached]
           /\ tries' = [tries EXCEPT ![c] = IF t < MAX_COLL_FETCH_TRIES THEN t ELSE 0]
           /\ slept' = [slept EXCEPT ![c] = IF t < MAX_COLL_FETCH_TRIES THEN NowMs ELSE 0]
           /\ pc' = [pc EXCEPT ![c] = IF t < MAX_COLL_FETCH_TRIES THEN "coll_wait"
                                      ELSE AfterLoadCollections(op[c], FALSE)]
    /\ UNCHANGED <<call, now, ms, db_locks, lk, lock_id, fetched, op, exc, loaded_stats, save_ret,
                   stores>>

\* ---------------------------------------------------- load_species_stats
\* load_species_stats, first statement: load_timed_info on the stats file. A
\* cold file calls get_lock('species_stats').
SSCheck(c) ==
    /\ pc[c] = "idle"
    /\ StartsInOrder(c)
    /\ op' = [op EXCEPT ![c] = "stats"]
    /\ stats_file' = FileAfterLoad(TEMP_SPECIES_STATS_FILE_TIMEOUT_SEC)
    /\ LET loaded == LoadTimedInfo(TEMP_SPECIES_STATS_FILE_TIMEOUT_SEC)
       IN  IF loaded # None
           THEN /\ loaded_stats' = [loaded_stats EXCEPT ![c] = loaded]
                /\ pc' = [pc EXCEPT ![c] = "done"]
                /\ UNCHANGED lk
           ELSE /\ lk' = [lk EXCEPT ![c] = GetLockFrame("species_stats")]
                /\ pc' = [pc EXCEPT ![c] = "stats_lock"]
                /\ UNCHANGED loaded_stats
    /\ UNCHANGED <<call, now, ms, db_locks, lock_id, fetched, tries, slept, exc, loaded_colls,
                   save_ret, collections, last_writer, uploads, table_timeout, upload_images>>

\* The winner, after load_collections: sdu.species_stats generates the stats
\* when coll_info is truthy, then db.release_lock('species_stats', lock_id)
\* (line 187).
SSGenRelease(c) ==
    /\ pc[c] = "stats_gen"
    /\ LET stats == IF Truthy(loaded_colls[c]) THEN Some("stats") ELSE None
       IN  /\ loaded_stats' = [loaded_stats EXCEPT ![c] = stats]
           /\ pc' = [pc EXCEPT ![c] = IF stats # None THEN "stats_save" ELSE "done"]
    /\ db_locks' = ReleaseLock("species_stats", lock_id[c]["species_stats"])
    /\ lock_id' = [lock_id EXCEPT ![c]["species_stats"] = NULL]
    /\ UNCHANGED <<call, now, ms, lk, fetched, op, tries, slept, exc, loaded_colls, save_ret, stores>>

\* sdu.species_stats raises: control goes to the finally clause.
SSGenRaise(c) ==
    /\ pc[c] = "stats_gen"
    /\ Truthy(loaded_colls[c])
    /\ exc' = [exc EXCEPT ![c] = TRUE]
    /\ pc' = [pc EXCEPT ![c] = "stats_finally"]
    /\ UNCHANGED <<call, now, ms, db_locks, lk, lock_id, fetched, op, tries, slept, loaded_colls,
                   loaded_stats, save_ret, stores>>

\* The finally clause of load_species_stats with the lock held (line 208).
SSFinally(c) ==
    /\ pc[c] = "stats_finally"
    /\ db_locks' = ReleaseLock("species_stats", lock_id[c]["species_stats"])
    /\ lock_id' = [lock_id EXCEPT ![c]["species_stats"] = NULL]
    /\ pc' = [pc EXCEPT ![c] = "done"]
    /\ UNCHANGED <<call, now, ms, lk, fetched, locals, stores>>

\* sdfu.save_timed_info(stats_temp_filename, loaded_stats) (line 192).
SSSave(c) ==
    /\ pc[c] = "stats_save"
    /\ stats_file' = Some([data |-> loaded_stats[c][1], timestamp |-> now])
    /\ pc' = [pc EXCEPT ![c] = "done"]
    /\ UNCHANGED <<call, now, ms, db_locks, lk, lock_id, fetched, locals, collections, last_writer, uploads, table_timeout, upload_images>>

\* Variant: the wait for the species stats does not count its tries: a poll
\* that finds no file is followed at once by the next one.
SSPoll_UntilLoaded(c) ==
    /\ pc[c] = "stats_wait"
    /\ SleepOver(slept[c], tries[c] + 1, MAX_STAT_FETCH_WAIT_SEC, MAX_STAT_FETCH_TRIES)
    /\ stats_file' = FileAfterLoad(TEMP_SPECIES_STATS_FILE_TIMEOUT_SEC)
    /\ LET loaded == LoadTimedInfo(TEMP_SPECIES_STATS_FILE_TIMEOUT_SEC)
       IN  /\ loaded_stats' = [loaded_stats EXCEPT ![c] = loaded]
           /\ tries' = [tries EXCEPT ![c] = IF loaded = None THEN @ ELSE 0]
           /\ slept' = [slept EXCEPT ![c] = IF loaded = None THEN @ ELSE 0]
           /\ pc' = [pc EXCEPT ![c] = IF loaded = None THEN "stats_wait" ELSE "done"]
    /\ UNCHANGED <<call, now, ms, db_locks, lk, lock_id, fetched, op, exc, loaded_colls, save_ret,
                   collections, last_writer, uploads, table_timeout, upload_images>>

\* Waiting: one turn of the loop of a caller that did not get the
\* species_stats lock: tries += 1, sleep, load_timed_info.
SSPoll(c) ==
    /\ pc[c] = "stats_wait"
    /\ SleepOver(slept[c], tries[c] + 1, MAX_STAT_FETCH_WAIT_SEC, MAX_STAT_FETCH_TRIES)
    /\ stats_file' = FileAfterLoad(TEMP_SPECIES_STATS_FILE_TIMEOUT_SEC)
    /\ LET loaded == LoadTimedInfo(TEMP_SPECIES_STATS_FILE_TIMEOUT_SEC)
           t == IF loaded # None THEN tries[c] + 1 + MAX_STAT_FETCH_TRIES ELSE tries[c] + 1
       IN  /\ loaded_stats' = [loaded_stats EXCEPT ![c] = loaded]
           /\ tries' = [tries EXCEPT ![c] = IF t < MAX_STAT_FETCH_TRIES THEN t ELSE 0]
           /\ slept' = [slept EXCEPT ![c] = IF t < MAX_STAT_FETCH_TRIES THEN NowMs ELSE 0]
           /\ pc' = [pc EXCEPT ![c] = IF t < MAX_STAT_FETCH_TRIES THEN "stats_wait" ELSE "done"]
    /\ UNCHANGED <<call, now, ms, db_locks, lk, lock_id, fetched, op, exc, loaded_colls, save_ret,
                   collections, last_writer, uploads, table_timeout, upload_images>>

\* The server's tables, file and threads at the start.
ServerInit ==
    /\ db_locks = <<>>
    /\ lk = [c \in Callers |-> NoFrame]
    /\ lock_id = [c \in Callers |-> [n \in LockNames |-> NULL]]
    /\ pc = [c \in Callers |-> "idle"]
    /\ fetched = [c \in Callers |-> FALSE]
    /\ op = [c \in Callers |-> "none"]
    /\ tries = [c \in Callers |-> 0]
    /\ slept = [c \in Callers |-> 0]
    /\ exc = [c \in Callers |-> FALSE]
    /\ loaded_colls = [c \in Callers |-> None]
    /\ loaded_stats = [c \in Callers |-> None]
    /\ save_ret = [c \in Callers |-> "unset"]
    /\ last_writer = 0
    /\ stats_file = None

InitLock ==
    /\ now = 1
    /\ ms = 0
    /\ ServerInit
    /\ collections = {}
    /\ uploads = {}
    /\ table_timeout = {}
    /\ upload_images = {}
    /\ fn_in = None
    /\ fn_out = None

NextLock ==
    \/ TickMs
    \/ TickSec
    \/ \E c \in Callers : LockStep(c)
    \/ \E c \in Callers : DrvGet(c)
    \/ \E c \in Callers : DrvRelease(c)

SpecLock == InitLock /\ [][NextLock]_vars

\* ------------------------------------------------------- the whole server
Init == InitLock

Next ==
    \/ TickMs
    \/ TickSec
    \/ \E c \in Callers : LockStep(c)
    \/ \E c \in Callers : LCCheck(c)
    \/ \E c \in Callers : LCNoCreds(c)
    \/ \E c \in Callers : CollSave(c)
    \/ \E c \in Callers : CollSaveFail(c)
    \/ \E c \in Callers : CollRaise(c)
    \/ \E c \in Callers : CollRelease(c)
    \/ \E c \in Callers : CollPoll(c)
    \/ \E c \in Callers : SSCheck(c)
    \/ \E c \in Callers : SSGenRelease(c)
    \/ \E c \in Callers : SSGenRaise(c)
    \/ \E c \in Callers : SSFinally(c)
    \/ \E c \in Callers : SSSave(c)
    \/ \E c \in Callers : SSPoll(c)

Spec == Init /\ [][Next]_vars

\* Only load_collections requests.
NextColl ==
    \/ TickMs
    \/ TickSec
    \/ \E c \in Callers : LockStep(c)
    \/ \E c \in Callers : LCCheck(c)
    \/ \E c \in Callers : LCNoCreds(c)
    \/ \E c \in Callers : CollSave(c)
    \/ \E c \in Callers : CollSaveFail(c)
    \/ \E c \in Callers : CollRaise(c)
    \/ \E c \in Callers : CollRelease(c)
    \/ \E c \in Callers : CollPoll(c)

SpecColl == Init /\ [][NextColl]_vars

\* ================================================================ properties
\* ------------------------------------------------------------ the named lock
\* Caller c holds a live lock on name n: the token it was given is still the
\* stored one and the lock has not reached the abandonment age.
Live(c, n) ==
    /\ lock_id[c][n] # NULL
    /\ RowIdx(n) # {}
    /\ FirstRow(n).value = lock_id[c][n]
    /\ now - FirstRow(n).timestamp <= MAX_LOCK_WAIT_TIME_SEC

\* C2, as stated: for every lock name at most one caller holds a live lock.
C2_MutualExclusion ==
    \A n \in LockNames : \A c, d \in Callers : (Live(c, n) /\ Live(d, n)) => c = d

\* Caller c takes the step that is its release_lock(n, token) call.
Releases(c, n) == pc[c] = "drv_hold" /\ pc'[c] = "done" /\ lock_id[c][n] # NULL

\* C4: a release_lock whose token is stored in no row of the name leaves the
\* table as it is, and one whose token differs from the stored token of the
\* name (the row a read-back sees) leaves that row, its token and timestamp,
\* and the number of rows as they are.
C4_OwnerCheckedRelease ==
    [][\A c \in Callers : \A n \in LockNames :
          Releases(c, n) =>
             /\ (\A i \in RowIdx(n) : db_locks[i].value # lock_id[c][n])
                    => db_locks' = db_locks
             /\ (RowIdx(n) # {} /\ FirstRow(n).value # lock_id[c][n])
                    => /\ Len(db_locks') = Len(db_locks)
                       /\ db_locks'[FirstIdx(n)] = db_locks[FirstIdx(n)]
                       /\ \A i \in 1..Len(db_locks) :
                             db_locks[i].name # n => db_locks'[i] = db_locks[i]]_vars

\* A holder that was pre-empted has released, and the new holder's token is
\* still stored.
C4_Witness ==
    \E c, d \in Callers : \E n \in LockNames :
        /\ c # d
        /\ lk[c].name = n /\ lk[c].rel = "miss"
        /\ RowIdx(n) # {}
        /\ FirstRow(n).value # NULL
        /\ FirstRow(n).value = lock_id[d][n]
        /\ FirstRow(n).value # lk[c].ret

\* The stored lock of name n is older than max_lock_sec.
Abandoned(n, max_lock_sec) ==
    /\ RowIdx(n) # {}
    /\ FirstRow(n).value # NULL
    /\ now - FirstRow(n).timestamp > max_lock_sec

\* C5: the UPDATE of a lock_get that found the name in the table, run when
\* the stored lock is older than max_lock_sec and not failing with an sqlite
\* error, stores the caller's token and the current time; the read-back that
\* finds the caller's token stored returns it.
C5_Abandonment ==
    [][\A c \in Callers :
          /\ (/\ lk[c].pc = "write" /\ lk[c].lock_exists
              /\ Abandoned(lk[c].name, lk[c].max_lock_sec)
              /\ lk'[c].pc # "write" /\ ~lk'[c].err)
                => /\ lk'[c].pc = "read"
                   /\ db_locks'[FirstIdx(lk[c].name)] =
                         [name |-> lk[c].name, value |-> lk[c].lock_value, timestamp |-> now]
          /\ (/\ lk[c].pc = "read"
              /\ FirstRow(lk[c].name).value = lk[c].lock_value
              /\ lk'[c].pc # "read" /\ ~lk'[c].err)
                => /\ lk'[c].ret = lk[c].lock_value
                   /\ lock_id'[c][lk[c].name] = lk[c].lock_value]_vars

\* A lock that was never released has been taken over, more than
\* MAX_LOCK_WAIT_TIME_SEC later, by another caller whose token is now stored.
C5_Witness ==
    \E c, d \in Callers : \E n \in LockNames :
        /\ c # d
        /\ lock_id[c][n] # NULL /\ lk[c].rel = "-"
        /\ lock_id[d][n] # NULL /\ lock_id[d][n] # lock_id[c][n]
        /\ lk[d].lock_exists
        /\ FirstRow(n).value = lock_id[d][n]
        /\ FirstRow(n).timestamp * MsPerSec > lk[c].at + (MAX_LOCK_WAIT_TIME_SEC * MsPerSec)

\* C6: the UPDATE of a lock_get that found the name in the table, run when
\* the stored token is non-null and its age is at most max_lock_sec, leaves
\* the stored token and timestamp as they are; when that holds for every row
\* of the name the table is unchanged and the call returns None.
C6_FailedAcquireNoEffect ==
    [][\A c \in Callers :
          (/\ lk[c].pc = "write" /\ lk[c].lock_exists
           /\ RowIdx(lk[c].name) # {}
           /\ FirstRow(lk[c].name).value # NULL
           /\ now - FirstRow(lk[c].name).timestamp <= lk[c].max_lock_sec
           /\ lk'[c].pc # "write")
             => /\ db_locks'[FirstIdx(lk[c].name)] = db_locks[FirstIdx(lk[c].name)]
                /\ (\A i \in RowIdx(lk[c].name) :
                        /\ db_locks[i].value # NULL
                        /\ now - db_locks[i].timestamp <= lk[c].max_lock_sec)
                     => /\ db_locks' = db_locks
                        /\ lk'[c].pc = "none"
                        /\ lk'[c].ret = NULL
                        /\ lock_id'[c][lk[c].name] = NULL]_vars

\* A lock_get has returned None, without an sqlite error, from an UPDATE run
\* when the stored lock was exactly MAX_LOCK_WAIT_TIME_SEC old; the holder's
\* token and timestamp are still stored.
C6_Witness ==
    \E c, d \in Callers : \E n \in LockNames :
        /\ c # d
        /\ lk[d].name = n /\ lk[d].pc = "none" /\ lk[d].lock_exists
        /\ lk[d].ret = NULL /\ ~lk[d].err /\ lk[d].at # NULL
        /\ Len(db_locks) = 1
        /\ FirstRow(n).value = lock_id[c][n]
        /\ lock_id[c][n] # NULL
        /\ lk[d].at \div MsPerSec = FirstRow(n).timestamp + MAX_LOCK_WAIT_TIME_SEC

\* ------------------------------------------------------- the orchestrators
\* C1, as stated: over all callers of load_collections the origin fetch is
\* invoked at most once.
C1_SingleFlight == Cardinality({c \in Callers : fetched[c]}) <= 1

\* Caller c is between a get_lock(n) that gave it a token and the completion
\* of its write of the resource that n guards.
Writer(c, n) ==
    IF n = "fetch_collection" THEN pc[c] = "coll_fetch"
    ELSE /\ op[c] = "stats"
         /\ pc[c] \in {"lc_start", "coll_lock", "coll_wait", "coll_fetch", "coll_release",
                       "stats_gen", "stats_save"}

\* C3, as stated: for each of fetch_collection and species_stats at most one
\* caller at a time is between its successful get_lock and the completion of
\* its snapshot write.
C3_SingleWriter ==
    \A n \in LockNames : \A c, d \in Callers : (Writer(c, n) /\ Writer(d, n)) => c = d

\* The places where a thread is once it has left the code that get_lock(n)
\* guards, by return or by exception.
Exits(n) ==
    IF n = "fetch_collection" THEN {"done", "stats_gen", "stats_finally", "stats_save"}
    ELSE {"done", "stats_save"}

\* C7: a caller that was given the token of fetch_collection or species_stats
\* leaves the code the lock guards, by return or by exception, only in a step
\* that is the release of that name with its own token.
C7_ReleaseOnEveryExit ==
    [][\A c \in Callers : \A n \in LockNames :
          (lock_id[c][n] # NULL /\ pc'[c] \in Exits(n))
             => /\ db_locks' = LockReleased(n, lock_id[c][n])
                /\ lock_id'[c][n] = NULL]_vars

\* The origin fetch of a load_collections caller raised; the caller has
\* returned and the token it held is stored no more.
C7_Witness ==
    \E c \in Callers :
        /\ op[c] = "coll" /\ fetched[c] /\ exc[c] /\ pc[c] = "done"
        /\ lock_id[c]["fetch_collection"] = NULL
        /\ RowIdx("fetch_collection") # {}
        /\ \A i \in RowIdx("fetch_collection") : db_locks[i].value = NULL

\* The payloads in the snapshot store.
StoredColls(rows) == {r.json : r \in rows}

\* Caller c takes the step that is its release_lock('fetch_collection', token)
\* on the path without exception.
ReleasesFetch(c) ==
    /\ lock_id[c]["fetch_collection"] # NULL
    /\ lock_id'[c]["fetch_collection"] = NULL
    /\ ~exc[c]

C9_StatsPersistBeforeRelease ==
    \A c \in Callers :
        ~ (/\ pc[c] = "stats_save"
           /\ stats_file = None
           /\ \A i \in RowIdx("species_stats") : db_locks[i].value = NULL)

\* Caller c, waiting after get_lock('fetch_collection') returned None, takes
\* a step.
WaiterSteps(c) ==
    /\ pc[c] = "coll_wait"
    /\ (pc'[c] # pc[c] \/ tries'[c] # tries[c] \/ slept'[c] # slept[c])

\* C10: a caller that waits because get_lock('fetch_collection') returned
\* None has not invoked the origin and holds no token, and a step of its wait
\* loop invokes no origin fetch and writes neither the lock table nor the
\* snapshot store nor the stats file.
C10_LosersOnlyRead ==
    [][\A c \in Callers :
          /\ pc[c] = "coll_wait" => (~fetched[c] /\ lock_id[c]["fetch_collection"] = NULL)
          /\ WaiterSteps(c)
                => /\ fetched' = fetched
                   /\ lock_id' = lock_id
                   /\ db_locks' = db_locks
                   /\ collections' = collections
                   /\ last_writer' = last_writer
                   /\ stats_file' = stats_file
                   /\ save_ret' = save_ret]_vars

\* A caller that lost the lock has polled the store, found it cold and is
\* waiting again, while another caller is fetching.
C10_Witness ==
    \E c, d \in Callers :
        /\ c # d
        /\ pc[c] = "coll_wait" /\ tries[c] >= 1 /\ ~fetched[c]
        /\ pc[d] = "coll_fetch"

\* ------------------------------------------------------- the bounded wait
\* The ms time at which time.sleep(k * COLL_FETCH_WAIT_INTERVAL_SEC) of waiting
\* caller c returns: interval = 300 / 55 s, rounded up to the millisecond.
WakeMs(c) ==
    slept[c] + ((((tries[c] + 1) * MAX_COLL_FETCH_WAIT_SEC * MsPerSec * 2)
                 + ((MAX_COLL_FETCH_TRIES + 1) * MAX_COLL_FETCH_TRIES) - 1)
                \div ((MAX_COLL_FETCH_TRIES + 1) * MAX_COLL_FETCH_TRIES))

\* Time passes until the first of the sleeping callers wakes up.
TickWait ==
    \E c \in Callers :
        /\ pc[c] = "coll_wait"
        /\ \A d \in Callers : pc[d] = "coll_wait" => NowMs < WakeMs(d) /\ WakeMs(c) <= WakeMs(d)
        /\ now' = WakeMs(c) \div MsPerSec
        /\ ms' = WakeMs(c) % MsPerSec
        /\ UNCHANGED <<call, db_locks, lk, lock_id, pc, fetched, locals, stores>>

\* load_collections callers with credentials, no sqlite error and no exception
\* in the fetch; the clock moves only to let a waiting caller wake up.
NextWait ==
    \/ TickWait
    \/ \E c \in Callers : LockCount(c)
    \/ \E c \in Callers : LockWrite(c)
    \/ \E c \in Callers : LockReadBack(c)
    \/ \E c \in Callers : LCCheck(c)
    \/ \E c \in Callers : CollSave(c)
    \/ \E c \in Callers : CollRelease(c)
    \/ \E c \in Callers : CollPoll(c)

\* A sleeping thread wakes up and runs; the lock holder is under no obligation.
SpecWait ==
    /\ Init
    /\ [][NextWait]_vars
    /\ WF_vars(TickWait)
    /\ \A c \in Callers : WF_vars(CollPoll(c))

\* Caller c of load_collections lost the lock and came back with nothing.
Exhausted(c) ==
    /\ op[c] = "coll" /\ pc[c] = "done"
    /\ ~fetched[c] /\ ~exc[c]
    /\ loaded_colls[c] = None

\* C11: a caller that did not get fetch_collection polls the store at most
\* MAX_COLL_FETCH_TRIES times, the k-th poll no sooner than k intervals of
\* 300/55 s after the one before, the tenth poll ends the wait with what the
\* store gave (None when it is cold), a caller that comes back with nothing has
\* waited 300 s, and every waiting caller returns whatever the holder does.
C11_BoundedWait ==
    /\ [](\A c \in Callers :
            /\ tries[c] < MAX_COLL_FETCH_TRIES
            /\ Exhausted(c) => NowMs >= MsPerSec + (MAX_COLL_FETCH_WAIT_SEC * MsPerSec))
    /\ [][\A c \in Callers :
            WaiterSteps(c) =>
               /\ (NowMs - slept[c]) * (MAX_COLL_FETCH_TRIES + 1) * MAX_COLL_FETCH_TRIES
                    >= (tries[c] + 1) * MAX_COLL_FETCH_WAIT_SEC * MsPerSec * 2
               /\ tries[c] = MAX_COLL_FETCH_TRIES - 1
                    => /\ pc'[c] = "done"
                       /\ loaded_colls'[c] = GetAllCollections(TIMEOUT_COLLECTIONS_SEC)]_vars
    /\ \A c \in Callers : (pc[c] = "coll_wait") ~> (pc[c] = "done")

\* A caller has used up its ten polls and returned None while the holder of
\* the lock is still fetching.
C11_Witness ==
    \E c, d \in Callers :
        /\ Exhausted(c)
        /\ pc[d] = "coll_fetch"
        /\ lock_id[d]["fetch_collection"] # NULL

\* ------------------------------------------------- get_all_collections alone
\* The collections tables of a function check: any of the rows 1..MaxRows,
\* each of an age of 0..MaxAge seconds at time MaxAge + 1.
TtlTables ==
    {{[coll_id |-> i, json |-> i, timestamp |-> (MaxAge + 1) - age[i]] :
          i \in {j \in 1..MaxRows : age[j] >= 0}} :
       age \in [1..MaxRows -> (0 - 1)..MaxAge]}

InitTTL ==
    /\ now = MaxAge + 1
    /\ ms = 0
    /\ ServerInit
    /\ collections \in TtlTables
    /\ uploads = {}
    /\ table_timeout = {}
    /\ upload_images = {}
    /\ fn_in \in {[fn |-> "get_all_collections", timeout_sec |-> t] : t \in 0..MaxAge}
    /\ fn_out = None

\* db.get_all_collections(s3_id, timeout_sec)
CallGetAllCollections ==
    /\ fn_in.fn = "get_all_collections"
    /\ fn_out = None
    /\ fn_out' = Some(GetAllCollections(fn_in.timeout_sec))
    /\ UNCHANGED <<fn_in, now, ms, db_locks, lk, lock_id, pc, fetched, locals, stores>>

NextTTL == CallGetAllCollections

SpecTTL == InitTTL /\ [][NextTTL]_vars

\* Every row of the table is younger than timeout_sec.
AllFresh(timeout_sec) == \A r \in collections : now - r.timestamp < timeout_sec

\* C12: get_all_collections returns the payloads of all rows if and only if
\* the row set is not empty and every row is younger than the timeout; an
\* empty row set, or one row whose age has reached the timeout, gives None.
C12_AllOrNothingTTL ==
    fn_out # None =>
        /\ fn_out[1] # None <=> (collections # {} /\ AllFresh(fn_in.timeout_sec))
        /\ fn_out[1] # None => fn_out[1][1] = {r.json : r \in collections}

\* The call gave None for a table in which one row is exactly as old as the
\* timeout and another row is younger.
C12_Witness ==
    /\ fn_out = Some(None)
    /\ \E r \in collections : now - r.timestamp = fn_in.timeout_sec
    /\ \E r \in collections : now - r.timestamp < fn_in.timeout_sec

\* ------------------------------------------------ one refresh of the cache
\* The one thread of a function check.
OneCaller == 1

\* The collections tables a refresh may find, at time TIMEOUT_COLLECTIONS_SEC
\* + 1: any of the rows 1..MaxRows, each one second old or exactly
\* TIMEOUT_COLLECTIONS_SEC old.
RefreshTables ==
    {{[coll_id |-> i, json |-> i,
       timestamp |-> IF age[i] = 1 THEN TIMEOUT_COLLECTIONS_SEC ELSE 1] :
          i \in {j \in 1..MaxRows : age[j] > 0}} :
       age \in [1..MaxRows -> 0..2]}

InitRefresh ==
    /\ now = TIMEOUT_COLLECTIONS_SEC + 1
    /\ ms = 0
    /\ ServerInit
    /\ collections \in RefreshTables
    /\ uploads = {}
    /\ table_timeout = {}
    /\ upload_images = {}
    /\ fn_in = [fn |-> "load_collections", before |-> collections]
    /\ fn_out = None

\* One load_collections request with credentials, no sqlite error and no
\* exception in the fetch.
NextRefresh ==
    \/ LCCheck(OneCaller)
    \/ LockCount(OneCaller)
    \/ LockWrite(OneCaller)
    \/ LockReadBack(OneCaller)
    \/ CollSave(OneCaller)
    \/ CollRelease(OneCaller)

SpecRefresh == InitRefresh /\ [][NextRefresh]_vars

\* Caller c's save_all_collections commits in this step.
SavesFetch(c) == pc[c] = "coll_fetch" /\ save_ret[c] = "unset" /\ save_ret'[c] = "True"

Stale(r) == now - r.timestamp >= TIMEOUT_COLLECTIONS_SEC

\* C13, as stated: a refresh made because one row is stale leaves every row
\* that is still fresh, payload and timestamp, as it was.
C13_MergePreservesFresh ==
    [][\A c \in Callers :
          (SavesFetch(c) /\ \E a \in collections : Stale(a))
             => \A b \in collections : ~Stale(b) => b \in collections']_vars

\* C13, amended: a refresh replaces every row of the s3_id: afterwards the
\* table holds one row for each collection the origin returned, each with the
\* time of the refresh, and no row written before, fresh or stale, is left.
C13_RefreshReplacesAll ==
    [][\A c \in Callers :
          SavesFetch(c)
             => /\ \A r \in collections' : r.timestamp = now
                /\ {r.coll_id : r \in collections'} = loaded_colls'[c][1]
                /\ \A b \in collections : b.timestamp < now => b \notin collections']_vars

\* A refresh found one stale row and one fresh row; the collection of the
\* fresh row is still cached, in a new row.
C13_Witness ==
    /\ fn_in # None /\ fn_in.fn = "load_collections"
    /\ save_ret[OneCaller] = "True"
    /\ \E a, b \in fn_in.before :
          /\ a.timestamp = 1
          /\ b.timestamp = TIMEOUT_COLLECTIONS_SEC
          /\ b \notin collections
          /\ \E r \in collections : r.coll_id = b.coll_id /\ r.timestamp = now

\* ------------------------------------------- the fetch of the collections
\* What the origin does for one bucket during S3Connection.get_collections:
\*   "ok"         collection.json and permissions are read, the upload task
\*                returns one upload
\*   "no_uploads" collection.json is read, the bucket has no upload folder
\*   "task_fails" collection.json is read, get_upload_data_thread raises
\*   "no_json"    get_s3_file returns None for collection.json (NoSuchKey)
\*   "s3_error"   get_s3_file raises an S3Error other than NoSuchKey
Outcomes == {"ok", "no_uploads", "task_fails", "no_json", "s3_error"}

Buckets == 1..MaxRows

\* The two ways a call ends: with a value, or with an exception.
Returned(v) == <<"return", v>>
Raises(e) == <<"raise", e>>

\* s3_access.get_user_collections: the buckets whose collection.json was
\* read; an S3Error other than NoSuchKey leaves the function.
GetUserCollections(origin) ==
    IF \E b \in Buckets : origin[b] = "s3_error"
    THEN Raises("S3Error")
    ELSE Returned({b \in Buckets : origin[b] # "no_json"})

\* Variant: the result of a task is taken outside of any try.
UpdateUserCollections_NoTry(origin, colls) ==
    IF \E b \in colls : origin[b] = "task_fails"
    THEN Raises("S3Error")
    ELSE Returned({[id |-> b, uploads |-> IF origin[b] = "ok" THEN 1 ELSE 0] : b \in colls})

\* s3_access.update_user_collections: one task for each bucket that has an
\* upload folder; the collection of a task that returned carries its uploads,
\* the exception of a task is printed, and every collection that is not in
\* the list by then is added with 'uploads': [].
UpdateUserCollections(origin, colls) ==
    LET user_collections ==
            {[id |-> b, uploads |-> 1] : b \in {c \in colls : origin[c] = "ok"}}
        user_buckets == {r.id : r \in user_collections}
    IN  Returned(user_collections
                   \cup {[id |-> b, uploads |-> 0] : b \in colls \ user_buckets})

\* S3Connection.get_collections
GetCollections(origin) ==
    IF GetUserCollections(origin)[1] = "raise"
    THEN GetUserCollections(origin)
    ELSE UpdateUserCollections(origin, GetUserCollections(origin)[2])

\* SPDSQLite.save_collections with the payload of each row: the collection
\* and the number of its uploads.
SavedRows(colls) ==
    {[coll_id |-> r.id, json |-> r, timestamp |-> now] : r \in colls}

\* The tables of an earlier refresh, at time 1: any of the buckets, each with
\* one upload.
FetchTables ==
    {{[coll_id |-> b, json |-> [id |-> b, uploads |-> 1], timestamp |-> 1] : b \in bs} :
        bs \in SUBSET Buckets}

InitFetch ==
    /\ now = 2
    /\ ms = 0
    /\ ServerInit
    /\ collections \in FetchTables
    /\ uploads = {}
    /\ table_timeout = {}
    /\ upload_images = {}
    /\ fn_in \in {[fn |-> "get_collections", origin |-> o] : o \in [Buckets -> Outcomes]}
    /\ fn_out = None

\* sparcd_collections.py:66
CallGetCollections ==
    /\ fn_in.fn = "get_collections"
    /\ fn_out = None
    /\ fn_out' = GetCollections(fn_in.origin)
    /\ UNCHANGED <<fn_in, now, ms, db_locks, lk, lock_id, pc, fetched, locals, stores>>

\* sparcd_collections.py:68-72, reached when get_collections returned.
CallSaveAllCollections ==
    /\ fn_in.fn = "get_collections"
    /\ fn_out # None /\ fn_out[1] = "return"
    /\ save_ret[OneCaller] = "unset"
    /\ collections' = SavedRows(fn_out[2])
    /\ save_ret' = [save_ret EXCEPT ![OneCaller] = "True"]
    /\ last_writer' = OneCaller
    /\ UNCHANGED <<call, now, ms, db_locks, lk, lock_id, pc, fetched,
                   op, tries, slept, exc, loaded_colls, loaded_stats, stats_file, uploads, table_timeout, upload_images>>

NextFetch == CallGetCollections \/ CallSaveAllCollections

SpecFetch == InitFetch /\ [][NextFetch]_vars

\* The fetch of bucket b failed in its task or omitted the collection.
FailedOrOmitted(b) == fn_in.origin[b] \in {"task_fails", "no_json"}

\* C14: in the save of a refresh, the row of a collection whose fetch failed
\* or was omitted stays in the table as it was.
C14_FailedKeepsPrevious ==
    [][(save_ret[OneCaller] = "unset" /\ save_ret'[OneCaller] = "True")
          => \A r \in collections :
                FailedOrOmitted(r.coll_id) => r \in collections']_vars

\* ------------------------------------------------ the filter of the uploads
\* What the uploads table holds for a bucket: no unexpired row, or one row
\* whose json is a document, is the empty string, or does not parse.
RowJson == {"valid", "empty", "malformed"}

UploadTables ==
    {{[bucket |-> b, json |-> j[b]] : b \in {x \in Buckets : j[x] # "none"}} :
        j \in [Buckets -> RowJson \cup {"none"}]}

\* What list_uploads_thread does for a bucket: returns one upload, returns
\* no upload, or raises.
TaskOutcomes == {"ok", "no_uploads", "fails"}

InitFilter ==
    /\ now = 1
    /\ ms = 0
    /\ ServerInit
    /\ collections = {}
    /\ uploads \in UploadTables
    /\ table_timeout = {}
    /\ upload_images = {}
    /\ fn_in \in {[fn |-> "filter_collections", task |-> t] : t \in [Buckets -> TaskOutcomes]}
    /\ fn_out = None

\* The buckets db.get_uploads gives rows for.
Cached == {r.bucket : r \in uploads}

\* The buckets left for S3: those with no rows in the table.
S3Uploads == Buckets \ Cached

\* query_helpers.filter_collections with filters that exclude nothing: the
\* buckets whose uploads are in the result.  The first loop reads the table
\* and parses the json of every row (the empty string gives {}); the second
\* takes the result of each task inside a try.
FilterCollections(task) ==
    IF \E r \in uploads : r.json = "malformed"
    THEN Raises("JSONDecodeError")
    ELSE Returned(Cached \cup {b \in S3Uploads : task[b] = "ok"})

\* The rows db.save_uploads has written when filter_collections is left.
UploadsAfterFilter(task) ==
    IF \E r \in uploads : r.json = "malformed"
    THEN uploads
    ELSE uploads \cup {[bucket |-> b, json |-> "valid"] :
                          b \in {x \in S3Uploads : task[x] = "ok"}}

CallFilterCollections ==
    /\ fn_in.fn = "filter_collections"
    /\ fn_out = None
    /\ fn_out' = FilterCollections(fn_in.task)
    /\ uploads' = UploadsAfterFilter(fn_in.task)
    /\ UNCHANGED <<fn_in, now, ms, db_locks, lk, lock_id, pc, fetched, locals,
                   collections, last_writer, stats_file, table_timeout, upload_images>>

NextFilter == CallFilterCollections

SpecFilter == InitFilter /\ [][NextFilter]_vars

\* The two concurrent per-partition fetches.
InitTasks == InitFetch \/ InitFilter

NextTasks == NextFetch \/ NextFilter

SpecTasks == InitTasks /\ [][NextTasks]_vars

C18_MalformedRowAbsent ==
    (fn_in # None /\ fn_in.fn = "filter_collections" /\ fn_out # None
       /\ \E r \in uploads : r.json = "malformed")
       => fn_out[1] = "return"

\* ------------------------------------------ the transaction of a save
\* save_collections runs on the connection of its SPARCdDatabase; sqlite3
\* opens a transaction at the DELETE, and the rows the transaction has
\* deleted and inserted are seen by other connections at the commit.  fn_out
\* follows the call: None (not begun), <<"txn", rows>> (the rows of the s3_id
\* as the open transaction has them), Returned(TRUE), Returned(FALSE),
\* Raises("crash") (the process ended with the transaction open).

\* The connection of the reader.
Reader == NumCallers

\* The tables a save may find, written at time 1.
SaveTables ==
    {{[coll_id |-> i, json |-> i, timestamp |-> 1] : i \in ids} : ids \in SUBSET (1..MaxRows)}

InitSave ==
    /\ now = 2
    /\ ms = 0
    /\ ServerInit
    /\ collections \in SaveTables
    /\ uploads = {}
    /\ table_timeout = {}
    /\ upload_images = {}
    /\ fn_in \in {[fn |-> "save_collections", colls |-> ids, before |-> collections] :
                     ids \in SUBSET (1..MaxRows)}
    /\ fn_out = None

SaveLeaves == <<fn_in, now, ms, db_locks, lk, lock_id, pc, fetched, locals,
                last_writer, stats_file, uploads, table_timeout, upload_images>>

InTxn == fn_out # None /\ fn_out[1] = "txn"

\* Variant: the rows of an open transaction stay when the process ends.
AfterCrash_NoRollback(txn) == txn

\* The committed rows after the process ended with a transaction open: sqlite
\* rolls the journal back.
AfterCrash(txn) == collections

\* cursor.execute('DELETE FROM collections WHERE s3_id=?')
SaveDelete ==
    /\ fn_in.fn = "save_collections"
    /\ fn_out = None
    /\ fn_out' = <<"txn", {}>>
    /\ UNCHANGED <<collections, SaveLeaves>>

\* The DELETE fails ten times with SQLITE_BUSY, or once with another error:
\* rollback, return False.
SaveDeleteFail ==
    /\ fn_in.fn = "save_collections"
    /\ fn_out = None
    /\ fn_out' = Returned(FALSE)
    /\ UNCHANGED <<collections, SaveLeaves>>

\* cursor.executemany(insert_sql, insert_data) has inserted some of the rows.
SaveInsertSome ==
    /\ InTxn
    /\ fn_out[2] = {}
    /\ \E ids \in SUBSET fn_in.colls :
          /\ ids # {}
          /\ fn_out' = <<"txn", SavedCollections(ids)>>
    /\ UNCHANGED <<collections, SaveLeaves>>

\* executemany raises sqlite3.Error: rollback, return False.
SaveInsertFail ==
    /\ InTxn
    /\ fn_out[2] # SavedCollections(fn_in.colls)
    /\ fn_out' = Returned(FALSE)
    /\ UNCHANGED <<collections, SaveLeaves>>

\* executemany is through; self._conn.commit(); return True.
SaveCommit ==
    /\ InTxn
    /\ collections' = SavedCollections(fn_in.colls)
    /\ fn_out' = Returned(TRUE)
    /\ UNCHANGED SaveLeaves

\* The process ends between the DELETE and the commit.
SaveCrash ==
    /\ InTxn
    /\ collections' = AfterCrash(fn_out[2])
    /\ fn_out' = Raises("crash")
    /\ UNCHANGED SaveLeaves

\* get_collections on another connection: the committed rows.
ReadCollections ==
    /\ fn_in.fn = "save_collections"
    /\ loaded_colls' = [loaded_colls EXCEPT ![Reader] = Some(collections)]
    /\ UNCHANGED <<call, now, ms, db_locks, lk, lock_id, pc, fetched, op, tries, slept, exc,
                   loaded_stats, save_ret, stores>>

NextSave ==
    \/ SaveDelete
    \/ SaveDeleteFail
    \/ SaveInsertSome
    \/ SaveInsertFail
    \/ SaveCommit
    \/ SaveCrash
    \/ ReadCollections

SpecSave == InitSave /\ [][NextSave]_vars

LoadCollectionsReturn(c) ==
    IF Truthy(loaded_colls[c]) THEN loaded_colls[c] ELSE None

\* Caller c fetched from an origin that holds no collection and is through.
EmptySnapshot(c) ==
    /\ op[c] = "coll" /\ pc[c] = "done" /\ fetched[c] /\ ~exc[c]
    /\ loaded_colls[c] = Some({})

\* C17: a caller whose wait ran out and a caller that fetched the empty
\* snapshot get different results from load_collections.
C17_UnavailableVsEmpty ==
    \A c, d \in Callers :
        (Exhausted(c) /\ EmptySnapshot(d))
           => LoadCollectionsReturn(c) # LoadCollectionsReturn(d)

\* ------------------------------------------------- the timeout parameter
\* The values of timeout_sec a check passes: None, an int, a str that int()
\* parses, a str that int() rejects, a finite float (int() truncates it), the
\* floats nan and inf, and a list.
TimeoutKinds == {"None", "int", "str_int", "str_bad", "float", "nan", "inf", "list"}

TimeoutArgs ==
    {[kind |-> k, value |-> v] : k \in {"int", "str_int", "float"}, v \in 0..MaxAge}
       \cup {[kind |-> k, value |-> 0] : k \in TimeoutKinds \ {"int", "str_int", "float"}}

\* sparcd_db.py:843-850, 890-898, 943-951: None raises RuntimeError; a value
\* that is not an int goes through int(), whose ValueError becomes a
\* RuntimeError; int() raises TypeError for a list and OverflowError for inf,
\* and these are not caught.
TimeoutSec(arg) ==
    CASE arg.kind = "None" -> Raises("RuntimeError")
      [] arg.kind \in {"int", "str_int", "float"} -> Returned(arg.value)
      [] arg.kind \in {"str_bad", "nan"} -> Raises("RuntimeError")
      [] arg.kind = "inf" -> Raises("OverflowError")
      [] arg.kind = "list" -> Raises("TypeError")

\* The uploads table with the one upload upload_images_get asks for: no row,
\* or a row of an age of 0..MaxAge seconds.
UploadRows ==
    {{}} \cup {{[bucket |-> 1, json |-> "valid", timestamp |-> (MaxAge + 1) - a]} : a \in 0..MaxAge}

InitTimeout ==
    /\ now = MaxAge + 1
    /\ ms = 0
    /\ ServerInit
    /\ fn_out = None
    /\ \/ /\ collections \in TtlTables
          /\ uploads = {}
          /\ table_timeout = {}
          /\ upload_images = {}
          /\ fn_in \in {[fn |-> f, timeout_sec |-> a] :
                           f \in {"get_all_collections", "collection_update"}, a \in TimeoutArgs}
       \/ /\ collections = {}
          /\ uploads \in UploadRows
          /\ table_timeout = {}
          /\ upload_images = {}
          /\ fn_in \in {[fn |-> "upload_images_get", timeout_sec |-> a] : a \in TimeoutArgs}

\* db.get_all_collections(s3_id, timeout_sec)
CallTimedGetAll ==
    /\ fn_in.fn = "get_all_collections"
    /\ fn_out = None
    /\ fn_out' = IF TimeoutSec(fn_in.timeout_sec)[1] = "raise"
                 THEN TimeoutSec(fn_in.timeout_sec)
                 ELSE Returned(GetAllCollections(TimeoutSec(fn_in.timeout_sec)[2]))
    /\ UNCHANGED <<fn_in, now, ms, db_locks, lk, lock_id, pc, fetched, locals, stores>>

\* Variant: the UPDATE sets the timestamp of the row as well.
CallCollectionUpdate_Stamps ==
    /\ fn_in.fn = "collection_update"
    /\ fn_out = None
    /\ LET t == TimeoutSec(fn_in.timeout_sec)
           fresh == {r \in collections : r.coll_id = 1 /\ now - r.timestamp < t[2]}
       IN  IF t[1] = "raise"
           THEN fn_out' = t /\ UNCHANGED collections
           ELSE IF fresh = {}
           THEN fn_out' = Returned(FALSE) /\ UNCHANGED collections
           ELSE /\ fn_out' = Returned(TRUE)
                /\ collections' = (collections \ fresh)
                                     \cup {[r EXCEPT !.json = 0, !.timestamp = now] : r \in fresh}
    /\ UNCHANGED <<fn_in, now, ms, db_locks, lk, lock_id, pc, fetched, locals,
                   last_writer, stats_file, uploads, table_timeout, upload_images>>

\* db.collection_update(s3_id, collection, timeout_sec) for collection 1:
\* the row gets the new json (0) when it is younger than the timeout.
CallCollectionUpdate ==
    /\ fn_in.fn = "collection_update"
    /\ fn_out = None
    /\ LET t == TimeoutSec(fn_in.timeout_sec)
           fresh == {r \in collections : r.coll_id = 1 /\ now - r.timestamp < t[2]}
       IN  IF t[1] = "raise"
           THEN fn_out' = t /\ UNCHANGED collections
           ELSE IF fresh = {}
           THEN fn_out' = Returned(FALSE) /\ UNCHANGED collections
           ELSE /\ fn_out' = Returned(TRUE)
                /\ collections' = (collections \ fresh)
                                     \cup {[r EXCEPT !.json = 0] : r \in fresh}
    /\ UNCHANGED <<fn_in, now, ms, db_locks, lk, lock_id, pc, fetched, locals,
                   last_writer, stats_file, uploads, table_timeout, upload_images>>

\* db.upload_images_get(s3_id, collection_id, upload_name, timeout_sec)
CallUploadImagesGet ==
    /\ fn_in.fn = "upload_images_get"
    /\ fn_out = None
    /\ LET t == TimeoutSec(fn_in.timeout_sec)
       IN  fn_out' = IF t[1] = "raise" THEN t
                     ELSE IF uploads = {} THEN Returned(None)
                     ELSE IF \E r \in uploads : now - r.timestamp >= t[2] THEN Returned(None)
                     ELSE Returned(Some({r.json : r \in uploads}))
    /\ UNCHANGED <<fn_in, now, ms, db_locks, lk, lock_id, pc, fetched, locals, stores>>

NextTimeout == CallTimedGetAll \/ CallCollectionUpdate \/ CallUploadImagesGet

SpecTimeout == InitTimeout /\ [][NextTimeout]_vars

\* timeout_sec is None or has no conversion to an integer.
NotAnInteger(arg) == arg.kind \in {"None", "str_bad", "nan", "inf", "list"}

\* C19: a call of get_all_collections, collection_update or upload_images_get
\* with a timeout_sec that is None or has no conversion to an integer ends
\* with RuntimeError.
C19_ConfigErrorIsRuntimeError ==
    (fn_in # None /\ fn_out # None
       /\ fn_in.fn \in {"get_all_collections", "collection_update", "upload_images_get"}
       /\ NotAnInteger(fn_in.timeout_sec))
       => fn_out = Raises("RuntimeError")

\* ----------------------------------------------------- filter_elevation
\* Elevations are doubles.  A double is written <<n, x>>: n ten-thousandths of
\* a meter, and x = 1 when the double lies above the double nearest to
\* n / 10000 (else 0).  The float() of an upload's elevation with up to four
\* decimals is <<n, 0>>.
TenThousandths == 10000
FeetFactor == 3048          \* 0.3048, in ten-thousandths

\* The whole numbers of feet v up to 40 for which the double v * 0.3048 is
\* above the double nearest to the exact product (3 * 0.3048 is
\* 0.9144000000000001); 1000 * 0.3048 is the double 304.8.
RoundsAbove == {3, 6, 9, 11, 12, 18, 22, 23, 24, 35, 36, 37}

Comparators == {"=", "<", ">", "<=", ">="}

FilterValues == 0..MaxElev \cup {1000}

\* The elevations of the uploads: each filter value in meters and in feet,
\* and 300 m and 310 m.
Elevations ==
    {v * TenThousandths : v \in 0..MaxElev} \cup {v * FeetFactor : v \in FilterValues}
       \cup {300 * TenThousandths, 310 * TenThousandths}

\* Variant: the value is taken as meters whatever the units.
CurElevation_NoConversion(f) == <<f.value * TenThousandths, 0>>

\* query_helpers.py:233-236: the comparison value in meters.
CurElevation(f) ==
    IF f.units = "meters"
    THEN <<f.value * TenThousandths, 0>>
    ELSE <<f.value * FeetFactor, IF f.value \in RoundsAbove THEN 1 ELSE 0>>

\* The order of two doubles.
FloatLess(a, b) == a[1] < b[1] \/ (a[1] = b[1] /\ a[2] < b[2])

\* query_helpers.filter_elevation
FilterElevation(ups, f) ==
    LET cur == CurElevation(f)
    IN  CASE f.type = "="  -> Returned({u \in ups : <<u, 0>> = cur})
          [] f.type = "<"  -> Returned({u \in ups : FloatLess(<<u, 0>>, cur)})
          [] f.type = ">"  -> Returned({u \in ups : FloatLess(cur, <<u, 0>>)})
          [] f.type = "<=" -> Returned({u \in ups : ~FloatLess(cur, <<u, 0>>)})
          [] f.type = ">=" -> Returned({u \in ups : ~FloatLess(<<u, 0>>, cur)})
          [] OTHER -> Raises("ValueError")

InitElev ==
    /\ now = 1
    /\ ms = 0
    /\ ServerInit
    /\ collections = {}
    /\ uploads = {}
    /\ table_timeout = {}
    /\ upload_images = {}
    /\ fn_in \in {[fn |-> "filter_elevation", uploads |-> Elevations,
                   filter |-> [type |-> t, value |-> v, units |-> u]] :
                     t \in Comparators \cup {"!="}, v \in FilterValues,
                     u \in {"meters", "feet"}}
    /\ fn_out = None

CallFilterElevation ==
    /\ fn_in.fn = "filter_elevation"
    /\ fn_out = None
    /\ fn_out' = FilterElevation(fn_in.uploads, fn_in.filter)
    /\ UNCHANGED <<fn_in, now, ms, db_locks, lk, lock_id, pc, fetched, locals, stores>>

NextElev == CallFilterElevation

SpecElev == InitElev /\ [][NextElev]_vars

\* The sign of u - m for an upload at u ten-thousandths and a filter value of
\* m.
Side(u, m) ==
    IF u < m[1] \/ (u = m[1] /\ m[2] > 0) THEN 0 - 1
    ELSE IF u = m[1] THEN 0
    ELSE 1

\* The signs the comparator accepts.
Accepts(type) ==
    CASE type = "="  -> {0}
      [] type = "<"  -> {0 - 1}
      [] type = ">"  -> {1}
      [] type = "<=" -> {0 - 1, 0}
      [] type = ">=" -> {0, 1}

\* C20: filter_elevation keeps an upload exactly when its elevation in meters
\* stands to the filter value in meters (value * 0.3048 for feet, the value
\* for meters) as the comparator says; {'>', 1000, 'feet'} drops the upload at
\* 300 m and keeps the upload at 310 m.
C20_ElevationFilter ==
    (fn_in # None /\ fn_in.fn = "filter_elevation" /\ fn_out # None
       /\ fn_in.filter.type \in Comparators)
       => /\ fn_out[1] = "return"
          /\ \A u \in fn_in.uploads :
                u \in fn_out[2]
                   <=> Side(u, IF fn_in.filter.units = "feet"
                               THEN <<fn_in.filter.value * FeetFactor,
                                      IF fn_in.filter.value \in RoundsAbove THEN 1 ELSE 0>>
                               ELSE <<fn_in.filter.value * TenThousandths, 0>>)
                          \in Accepts(fn_in.filter.type)
          /\ fn_in.filter = [type |-> ">", value |-> 1000, units |-> "feet"]
                => /\ 300 * TenThousandths \notin fn_out[2]
                   /\ 310 * TenThousandths \in fn_out[2]
                   /\ 1000 * FeetFactor \notin fn_out[2]

\* The filter {'>', 1000, 'feet'} has been applied to uploads at 300 m and
\* 310 m.
C20_Witness ==
    /\ fn_in # None /\ fn_in.fn = "filter_elevation"
    /\ fn_in.filter = [type |-> ">", value |-> 1000, units |-> "feet"]
    /\ {300 * TenThousandths, 310 * TenThousandths} \subseteq fn_in.uploads
    /\ fn_out # None /\ fn_out[1] = "return"
    /\ 310 * TenThousandths \in fn_out[2]

\* ------------------------------------------------------- filter_uploads
\* A datetime is [wall, off]: wall is the seconds its date and time fields
\* stand after 2019-01-01T00:00:00, off its UTC offset in seconds, or NoTz for
\* a naive datetime.  Its instant is wall - off.
EpochYear == 2019
SecPerDay == 86400
SecPerHour == 3600
DEFAULT_TIMEZONE_OFFSET == 0 - (7 * 60 * 60)
NoTz == 10 * 86400        \* stands for tzinfo None; no utcoffset is that large

\* The wall seconds at which year y begins (2020 is a leap year).
YearStart(y) ==
    ((y - EpochYear) * 365 + (IF y > 2020 THEN 1 ELSE 0)) * SecPerDay

\* datetime.year of a datetime of 2019..2022.
YearOf(dt) ==
    CHOOSE y \in 2019..2022 : YearStart(y) <= dt.wall /\ dt.wall < YearStart(y + 1)

\* The timestamp strings of the images: four naive ones at the ends of
\* 2020..2021, the instant of 2020-01-01T00:00:00-07:00 written with offset
\* +00:00, a string fromisoformat rejects, and an empty string.
Ts2019End == [kind |-> "iso", wall |-> YearStart(2020) - 1, off |-> NoTz]
Ts2020Start == [kind |-> "iso", wall |-> YearStart(2020), off |-> NoTz]
Ts2021End == [kind |-> "iso", wall |-> YearStart(2022) - 1, off |-> NoTz]
Ts2022Start == [kind |-> "iso", wall |-> YearStart(2022), off |-> NoTz]
Ts2020Utc == [kind |-> "iso", wall |-> YearStart(2020) + 7 * SecPerHour, off |-> 0]
TsBad == [kind |-> "bad", wall |-> 0, off |-> NoTz]
TsEmpty == [kind |-> "empty", wall |-> 0, off |-> NoTz]

Timestamps == {Ts2019End, Ts2020Start, Ts2021End, Ts2022Start, Ts2020Utc, TsBad, TsEmpty}

\* The images: one of species "a" for each timestamp, and one of species "b".
Images ==
    {[timestamp |-> t, species |-> "a"] : t \in Timestamps}
       \cup {[timestamp |-> Ts2020Start, species |-> "b"]}

\* Variant: a naive timestamp is taken as UTC.
ImageDt_Utc(img) ==
    IF img.timestamp.kind = "empty" THEN None
    ELSE IF img.timestamp.kind = "bad" THEN Raises("ValueError")
    ELSE Some([wall |-> img.timestamp.wall,
               off |-> IF img.timestamp.off = NoTz THEN 0 ELSE img.timestamp.off])

\* query_helpers.py:69-75: image_dt of an image: None without a timestamp,
\* the ValueError of fromisoformat, or the datetime, with the default offset
\* when it has none.
ImageDt(img) ==
    IF img.timestamp.kind = "empty" THEN None
    ELSE IF img.timestamp.kind = "bad" THEN Raises("ValueError")
    ELSE Some([wall |-> img.timestamp.wall,
               off |-> IF img.timestamp.off = NoTz
                       THEN DEFAULT_TIMEZONE_OFFSET ELSE img.timestamp.off])

Instant(dt) == dt.wall - dt.off

\* Variant: the end year is not part of the range.
YearsExcludes_EndOpen(dt, years) ==
    dt = None \/ ~(years.yearStart <= YearOf(dt[1]) /\ YearOf(dt[1]) < years.yearEnd)

\* query_helpers.py:102-108: the years filter excludes the image.
YearsExcludes(dt, years) ==
    dt = None \/ ~(years.yearStart <= YearOf(dt[1]) /\ YearOf(dt[1]) <= years.yearEnd)

\* query_helpers.py:92-100: the species filter excludes the image.
SpeciesExcludes(img, names) == img.species \notin names

\* What one filter does to an image: "keep", "drop", or "raise" (the
\* TypeError of comparing an aware datetime with a naive filter date).
OneFilter(img, dt, flt) ==
    CASE flt[1] = "years" -> IF YearsExcludes(dt, flt[2]) THEN "drop" ELSE "keep"
      [] flt[1] = "species" -> IF SpeciesExcludes(img, flt[2]) THEN "drop" ELSE "keep"
      [] flt[1] = "endDate" ->
            IF dt = None THEN "drop"
            ELSE IF flt[2].off = NoTz THEN "raise"
            ELSE IF Instant(dt[1]) > Instant(flt[2]) THEN "drop" ELSE "keep"
      [] flt[1] = "startDate" ->
            IF dt = None THEN "drop"
            ELSE IF flt[2].off = NoTz THEN "raise"
            ELSE IF Instant(dt[1]) < Instant(flt[2]) THEN "drop" ELSE "keep"

\* The filter applied at place i of the list.  years_filter is set at the
\* first 'years' filter that is met and never again (query_helpers.py:50,
\* 103-104), and get_filter_dt gives the date of the first filter of its name
\* (268-270): a years, startDate or endDate filter is applied with the value
\* of the first filter of that name in the list.
Applied(filters, i) ==
    IF filters[i][1] \in {"years", "startDate", "endDate"}
    THEN filters[CHOOSE k \in 1..i : /\ filters[k][1] = filters[i][1]
                                     /\ \A j \in 1..(k - 1) : filters[j][1] # filters[i][1]]
    ELSE filters[i]

\* query_helpers.py:82-117: the filters in their order, left at the first
\* that excludes.
RECURSIVE FilterImage(_, _, _, _)
FilterImage(img, dt, filters, i) ==
    IF i > Len(filters) THEN "keep"
    ELSE IF OneFilter(img, dt, Applied(filters, i)) = "keep"
         THEN FilterImage(img, dt, filters, i + 1)
    ELSE OneFilter(img, dt, Applied(filters, i))

\* query_helpers.py:64-123 for one image.
ImageVerdict(img, filters) ==
    IF Len(ImageDt(img)) = 2 THEN "drop"   \* the except: excluded, continue
    ELSE FilterImage(img, ImageDt(img), filters, 1)

\* The image as it is in the result: with image_dt.
Annotated(img) ==
    [timestamp |-> img.timestamp, species |-> img.species, image_dt |-> ImageDt(img)]

\* Variant: the loop over the images of an upload ends at the first image
\* whose timestamp does not parse.
RECURSIVE CurImages_StopAtBad(_, _)
CurImages_StopAtBad(images, filters) ==
    IF images = <<>> THEN <<>>
    ELSE IF Head(images).timestamp.kind = "bad" THEN <<>>
    ELSE IF ImageVerdict(Head(images), filters) = "keep"
         THEN <<Annotated(Head(images))>> \o CurImages_StopAtBad(Tail(images), filters)
         ELSE CurImages_StopAtBad(Tail(images), filters)

\* query_helpers.py:62-123: cur_images of one upload.
RECURSIVE CurImages(_, _)
CurImages(images, filters) ==
    IF images = <<>> THEN <<>>
    ELSE IF ImageVerdict(Head(images), filters) = "keep"
         THEN <<Annotated(Head(images))>> \o CurImages(Tail(images), filters)
         ELSE CurImages(Tail(images), filters)

\* Variant: every upload is in the result.
RECURSIVE Matches_NoPruning(_, _)
Matches_NoPruning(ups, filters) ==
    IF ups = <<>> THEN <<>>
    ELSE <<[name |-> Head(ups).name, images |-> CurImages(Head(ups).images, filters)]>>
            \o Matches_NoPruning(Tail(ups), filters)

\* query_helpers.py:60-128: the uploads with their images that passed, an
\* upload without such an image left out.
RECURSIVE Matches(_, _)
Matches(ups, filters) ==
    IF ups = <<>> THEN <<>>
    ELSE IF Len(CurImages(Head(ups).images, filters)) > 0
         THEN <<[name |-> Head(ups).name, images |-> CurImages(Head(ups).images, filters)]>>
                 \o Matches(Tail(ups), filters)
         ELSE Matches(Tail(ups), filters)

\* query_helpers.filter_uploads without upload-level filters.
FilterUploads(ups, filters) ==
    IF \E u \in 1..Len(ups) : \E k \in 1..Len(ups[u].images) :
          ImageVerdict(ups[u].images[k], filters) = "raise"
    THEN Raises("TypeError")
    ELSE Returned(Matches(ups, filters))

\* The filter dates: the instants of 2020-01-01T00:00:00-07:00 and of
\* 2021-12-31T23:59:59-07:00 as the request gives them, with offset +00:00,
\* and a start date without an offset.
StartAware == [wall |-> YearStart(2020) + 7 * SecPerHour, off |-> 0]
EndAware == [wall |-> YearStart(2022) - 1 + 7 * SecPerHour, off |-> 0]
StartNaive == [wall |-> YearStart(2020), off |-> NoTz]

\* The filters of a request, in the order years, species, startDate, endDate.
FilterLists ==
    {y \o sp \o sd \o ed :
        y \in {<<>>, <<<<"years", [yearStart |-> 2020, yearEnd |-> 2021]>>>>},
        sp \in {<<>>, <<<<"species", {"a"}>>>>},
        sd \in {<<>>, <<<<"startDate", StartAware>>>>, <<<<"startDate", StartNaive>>>>},
        ed \in {<<>>, <<<<"endDate", EndAware>>>>}}

ImageLists(n) == UNION {[1..k -> Images] : k \in 0..n}

InitQuery ==
    /\ now = 1
    /\ ms = 0
    /\ ServerInit
    /\ collections = {}
    /\ uploads = {}
    /\ table_timeout = {}
    /\ upload_images = {}
    /\ fn_in \in {[fn |-> "filter_uploads",
                   uploads_info |-> <<[name |-> "u1", images |-> i1],
                                      [name |-> "u2", images |-> i2]>>,
                   filters |-> f] :
                     i1 \in ImageLists(MaxImages), i2 \in ImageLists(1), f \in FilterLists}
    /\ fn_out = None

CallFilterUploads ==
    /\ fn_in.fn = "filter_uploads"
    /\ fn_out = None
    /\ fn_out' = FilterUploads(fn_in.uploads_info, fn_in.filters)
    /\ UNCHANGED <<fn_in, now, ms, db_locks, lk, lock_id, pc, fetched, locals, stores>>

NextQuery == CallFilterUploads

SpecQuery == InitQuery /\ [][NextQuery]_vars

\* filter_uploads was called with exactly these filters and has returned.
Queried(filters) ==
    /\ fn_in # None /\ fn_in.fn = "filter_uploads" /\ fn_in.filters = filters
    /\ fn_out # None /\ fn_out[1] = "return"

\* Images without the annotation of the result.
Plain(imgs) ==
    [k \in 1..Len(imgs) |-> [timestamp |-> imgs[k].timestamp, species |-> imgs[k].species]]

\* The images the result has for the upload of this name; none when the
\* upload is not in the result.
ResultFor(name) ==
    IF \E u \in 1..Len(fn_out[2]) : fn_out[2][u].name = name
    THEN Plain(fn_out[2][CHOOSE u \in 1..Len(fn_out[2]) : fn_out[2][u].name = name].images)
    ELSE <<>>

OnlyYears == <<<<"years", [yearStart |-> 2020, yearEnd |-> 2021]>>>>

\* The timestamp is a date and time of 2020-01-01T00:00:00 ..
\* 2021-12-31T23:59:59.
In2020To2021(img) ==
    /\ img.timestamp.kind = "iso"
    /\ YearStart(2020) <= img.timestamp.wall
    /\ img.timestamp.wall <= YearStart(2020) + (366 + 365) * SecPerDay - 1

\* C21: under the years filter 2020..2021 alone, the images kept of each
\* upload are those whose timestamp has a year of 2020..2021, both ends
\* included: 2020-01-01T00:00:00 and 2021-12-31T23:59:59 are kept,
\* 2019-12-31T23:59:59 and 2022-01-01T00:00:00 are not.
C21_YearsInclusive ==
    Queried(OnlyYears)
       => \A u \in 1..Len(fn_in.uploads_info) :
             /\ ResultFor(fn_in.uploads_info[u].name)
                   = SelectSeq(fn_in.uploads_info[u].images, In2020To2021)
             /\ \A k \in 1..Len(fn_in.uploads_info[u].images) :
                   LET img == fn_in.uploads_info[u].images[k]
                       kept == \E j \in 1..Len(ResultFor(fn_in.uploads_info[u].name)) :
                                  ResultFor(fn_in.uploads_info[u].name)[j] = img
                   IN  /\ img.timestamp \in {Ts2020Start, Ts2021End} => kept
                       /\ img.timestamp \in {Ts2019End, Ts2022Start} => ~kept

\* The years filter met the last second of 2021 and the first of 2022 in one
\* upload and kept the first of the two.
C21_Witness ==
    /\ Queried(OnlyYears)
    /\ fn_in.uploads_info[1].images
          = <<[timestamp |-> Ts2021End, species |-> "a"],
              [timestamp |-> Ts2022Start, species |-> "a"]>>
    /\ ResultFor("u1") = <<[timestamp |-> Ts2021End, species |-> "a"]>>

\* The filter lists made of the start date, the end date, or both, each with
\* an offset.
DateFilterLists ==
    {<<<<"startDate", StartAware>>>>, <<<<"endDate", EndAware>>>>,
     <<<<"startDate", StartAware>>, <<"endDate", EndAware>>>>}

\* The seconds from 2019-01-01T00:00:00Z to the instant of an image's
\* timestamp, a timestamp without offset read at -7:00.
InstantAtMinus7(img) ==
    IF img.timestamp.off = NoTz
    THEN img.timestamp.wall + 7 * SecPerHour
    ELSE img.timestamp.wall - img.timestamp.off

\* The image's instant lies within the date filters of the list.
WithinDates(img, filters) ==
    /\ img.timestamp.kind = "iso"
    /\ \A i \in 1..Len(filters) :
          /\ filters[i][1] = "startDate"
                => filters[i][2].wall - filters[i][2].off <= InstantAtMinus7(img)
          /\ filters[i][1] = "endDate"
                => InstantAtMinus7(img) <= filters[i][2].wall - filters[i][2].off

\* C22: under startDate and endDate filters the images kept are those whose
\* instant, a timestamp without timezone taken at UTC offset -7:00, lies
\* between the two dates, both ends included; and the image_dt of an image
\* without timezone carries that offset.
C22_NaiveIsMinus7 ==
    (fn_in # None /\ fn_in.fn = "filter_uploads" /\ fn_out # None
       /\ fn_in.filters \in DateFilterLists)
       => /\ fn_out[1] = "return"
          /\ \A u \in 1..Len(fn_in.uploads_info) :
                ResultFor(fn_in.uploads_info[u].name)
                   = SelectSeq(fn_in.uploads_info[u].images,
                               LAMBDA img : WithinDates(img, fn_in.filters))
          /\ \A u \in 1..Len(fn_out[2]) : \A k \in 1..Len(fn_out[2][u].images) :
                fn_out[2][u].images[k].timestamp.off = NoTz
                   => fn_out[2][u].images[k].image_dt[1].off = 0 - 25200

\* The start date 2020-01-01T07:00:00+00:00 met the naive timestamps
\* 2019-12-31T23:59:59 and 2020-01-01T00:00:00 and kept the second, which is
\* that very instant at -7:00 and seven hours too early at UTC.
C22_Witness ==
    /\ Queried(<<<<"startDate", StartAware>>>>)
    /\ fn_in.uploads_info[1].images
          = <<[timestamp |-> Ts2019End, species |-> "a"],
              [timestamp |-> Ts2020Start, species |-> "a"]>>
    /\ ResultFor("u1") = <<[timestamp |-> Ts2020Start, species |-> "a"]>>

\* No filter date of the list is without an offset.
DatesAware(filters) ==
    \A i \in 1..Len(filters) :
        filters[i][1] \in {"startDate", "endDate"} => filters[i][2].off # NoTz

\* C23: an image whose timestamp does not parse is not in the result,
\* the call returns, and the images after it in the same upload are still
\* filtered: each one that passes the filters is in the result.
C23_UnparseableExcluded ==
    (fn_in # None /\ fn_in.fn = "filter_uploads" /\ fn_out # None
       /\ DatesAware(fn_in.filters))
       => /\ fn_out[1] = "return"
          /\ \A u \in 1..Len(fn_out[2]) : \A k \in 1..Len(fn_out[2][u].images) :
                fn_out[2][u].images[k].timestamp.kind # "bad"
          /\ \A u \in 1..Len(fn_in.uploads_info) :
                \A k \in 1..Len(fn_in.uploads_info[u].images) :
                   LET img == fn_in.uploads_info[u].images[k]
                       res == ResultFor(fn_in.uploads_info[u].name)
                   IN  (img.timestamp.kind # "bad"
                          /\ FilterImage(img, ImageDt(img), fn_in.filters, 1) = "keep")
                          => \E j \in 1..Len(res) : res[j] = img

\* An upload began with an image whose timestamp does not parse; the image
\* after it passed the years filter and is the upload's result.
C23_Witness ==
    /\ Queried(OnlyYears)
    /\ fn_in.uploads_info[1].images
          = <<[timestamp |-> TsBad, species |-> "a"],
              [timestamp |-> Ts2020Start, species |-> "a"]>>
    /\ ResultFor("u1") = <<[timestamp |-> Ts2020Start, species |-> "a"]>>

\* C24: no upload of the result has an empty image list; an upload of the
\* input is in the result exactly when one of its images passes the filters,
\* and then with exactly those images, in their order.
C24_EmptyPruned ==
    (fn_in # None /\ fn_in.fn = "filter_uploads" /\ fn_out # None /\ fn_out[1] = "return")
       => /\ \A u \in 1..Len(fn_out[2]) : Len(fn_out[2][u].images) > 0
          /\ \A u \in 1..Len(fn_in.uploads_info) :
                LET passing == SelectSeq(fn_in.uploads_info[u].images,
                                   LAMBDA img : ImageVerdict(img, fn_in.filters) = "keep")
                    inResult == \E r \in 1..Len(fn_out[2]) :
                                   fn_out[2][r].name = fn_in.uploads_info[u].name
                IN  /\ inResult <=> passing # <<>>
                    /\ ResultFor(fn_in.uploads_info[u].name) = passing

\* The only image of the first upload was excluded, one of the second was
\* kept, and the result holds the second upload alone.
C24_Witness ==
    /\ Queried(OnlyYears)
    /\ fn_in.uploads_info[1].images = <<[timestamp |-> Ts2019End, species |-> "a"]>>
    /\ fn_in.uploads_info[2].images = <<[timestamp |-> Ts2020Start, species |-> "a"]>>
    /\ Len(fn_out[2]) = 1
    /\ fn_out[2][1].name = "u2"

\* ------------------------------------- queries and the uploads they save
\* What S3Connection.list_uploads gives for a bucket: one upload with these
\* images.
OriginListings ==
    {<<[timestamp |-> Ts2020Start, species |-> "a"],
       [timestamp |-> Ts2019End, species |-> "a"]>>,
     <<[timestamp |-> TsEmpty, species |-> "a"]>>}

QueryFilters == {OnlyYears, <<<<"species", {"a"}>>>>}

\* Variant: the json is made when the upload has been filtered.
UploadJson_AfterFilter(images, filters) ==
    [k \in 1..Len(images) |->
        IF ImageVerdict(images[k], filters) = "keep" THEN Annotated(images[k]) ELSE images[k]]

\* query_helpers.py:197-202: 'json': json.dumps(one_upload), made of the
\* upload as the listing gave it, before filter_uploads runs on it.
UploadJson(images, filters) == images

InitAnnot ==
    /\ now = 1
    /\ ms = 0
    /\ ServerInit
    /\ collections = {}
    /\ uploads = {}
    /\ table_timeout = {}
    /\ upload_images = {}
    /\ fn_in = None
    /\ fn_out = None

AnnotLeaves == <<now, ms, db_locks, lk, lock_id, pc, fetched, locals,
                 collections, last_writer, stats_file, table_timeout, upload_images>>

\* filter_collections for the collection of bucket b, whose uploads are in
\* the table: the rows are parsed and filtered.
QueryCached(b) ==
    /\ \E r \in uploads : r.bucket = b
    /\ \E f \in QueryFilters :
          LET row == CHOOSE r \in uploads : r.bucket = b
          IN  /\ fn_in' = [fn |-> "filter_collections", bucket |-> b, filters |-> f,
                           cached |-> TRUE]
              /\ fn_out' = FilterUploads(<<[name |-> "u1", images |-> row.json]>>, f)
    /\ UNCHANGED <<uploads, AnnotLeaves>>

\* filter_collections for the collection of bucket b, whose uploads are not
\* in the table: the listing is fetched, saved and filtered.
QueryCold(b) ==
    /\ ~\E r \in uploads : r.bucket = b
    /\ \E f \in QueryFilters, listing \in OriginListings :
          /\ fn_in' = [fn |-> "filter_collections", bucket |-> b, filters |-> f,
                       cached |-> FALSE]
          /\ uploads' = uploads \cup {[bucket |-> b, json |-> UploadJson(listing, f)]}
          /\ fn_out' = FilterUploads(<<[name |-> "u1", images |-> listing]>>, f)
    /\ UNCHANGED AnnotLeaves

\* The rows of bucket b reach TIMEOUT_UPLOADS_SEC.
UploadsExpire(b) ==
    /\ \E r \in uploads : r.bucket = b
    /\ uploads' = {r \in uploads : r.bucket # b}
    /\ UNCHANGED <<call, AnnotLeaves>>

NextAnnot ==
    \/ \E b \in Buckets : QueryCached(b)
    \/ \E b \in Buckets : QueryCold(b)
    \/ \E b \in Buckets : UploadsExpire(b)

SpecAnnot == InitAnnot /\ [][NextAnnot]_vars

\* C25: no image of a row of the uploads table, which is what save_uploads
\* wrote and what get_uploads gives, has an image_dt field.
C25_AnnotationNotPersisted ==
    \A r \in uploads : \A k \in 1..Len(r.json) : "image_dt" \notin DOMAIN r.json[k]

\* A query saved the listing of a bucket, a later one read the rows, and its
\* result has an image with image_dt.
C25_Witness ==
    /\ fn_in # None /\ fn_in.fn = "filter_collections" /\ fn_in.cached
    /\ fn_out # None /\ fn_out[1] = "return"
    /\ \E u \in 1..Len(fn_out[2]) : \E k \in 1..Len(fn_out[2][u].images) :
          "image_dt" \in DOMAIN fn_out[2][u].images[k]
             /\ fn_out[2][u].images[k].image_dt # None

\* ------------------------------------------- the expiry of the uploads
\* The two tables at time TIMEOUT_UPLOADS_SEC + 1: for each bucket no row at
\* all, or an upload row and a timeout row, both one second old ("fresh") or
\* both TIMEOUT_UPLOADS_SEC old ("expired").
BucketStates == {"none", "fresh", "expired"}

SavedAt(st) == IF st = "fresh" THEN TIMEOUT_UPLOADS_SEC ELSE 1

UploadRowsOf(st) ==
    {[bucket |-> b, json |-> "valid", timestamp |-> SavedAt(st[b])] :
        b \in {x \in Buckets : st[x] # "none"}}

TimeoutRowsOf(st) ==
    {[name |-> b, timestamp |-> SavedAt(st[b])] : b \in {x \in Buckets : st[x] # "none"}}

InitPartial ==
    /\ now = TIMEOUT_UPLOADS_SEC + 1
    /\ ms = 0
    /\ ServerInit
    /\ collections = {}
    /\ \E st \in [Buckets -> BucketStates] :
          /\ uploads = UploadRowsOf(st)
          /\ table_timeout = TimeoutRowsOf(st)
          /\ upload_images = {}
    /\ fn_in \in {[fn |-> "filter_collections", task |-> t] : t \in [Buckets -> TaskOutcomes]}
    /\ fn_out = None

\* Variant: one expired timeout row expires the uploads of every bucket.
GetUploads_AllOrNothing(b, timeout_sec) ==
    IF \E r \in table_timeout : now - r.timestamp >= timeout_sec THEN None
    ELSE IF {r \in uploads : r.bucket = b} = {} THEN None
    ELSE Some({r \in uploads : r.bucket = b})

\* SPARCdDatabase.get_uploads over SPDSQLite.get_uploads: None when the
\* bucket has no timeout row or its oldest one has reached timeout_sec, and
\* when it has no upload row; else its upload rows.
GetUploads(b, timeout_sec) ==
    LET tt == {r \in table_timeout : r.name = b}
    IN  IF tt = {} \/ \E r \in tt : now - r.timestamp >= timeout_sec THEN None
        ELSE IF {r \in uploads : r.bucket = b} = {} THEN None
        ELSE Some({r \in uploads : r.bucket = b})

\* query_helpers.py:167-178: the buckets whose uploads are asked of S3.
ToFetch == {b \in Buckets : GetUploads(b, TIMEOUT_UPLOADS_SEC) = None}

\* The buckets db.save_uploads is called for: those fetched whose task
\* returned an upload.
ToSave(task) == {b \in ToFetch : task[b] = "ok"}

\* SPDSQLite.save_uploads for each of these buckets: the upload rows of the
\* bucket are deleted and the new one inserted, its timeout rows become one
\* row with the current time.
UploadsSaved(bs) ==
    {r \in uploads : r.bucket \notin bs}
       \cup {[bucket |-> b, json |-> "valid", timestamp |-> now] : b \in bs}

TimeoutsSaved(bs) ==
    {r \in table_timeout : r.name \notin bs} \cup {[name |-> b, timestamp |-> now] : b \in bs}

\* filter_collections over the collections of all buckets, with filters that
\* exclude nothing: the result names the buckets whose uploads are in it and
\* the buckets list_uploads was called for.
CallFilterPartial ==
    /\ fn_in.fn = "filter_collections"
    /\ fn_out = None
    /\ fn_out' = Returned([buckets |-> (Buckets \ ToFetch) \cup ToSave(fn_in.task),
                           listed |-> ToFetch])
    /\ uploads' = UploadsSaved(ToSave(fn_in.task))
    /\ table_timeout' = TimeoutsSaved(ToSave(fn_in.task))
    /\ UNCHANGED <<fn_in, now, ms, db_locks, lk, lock_id, pc, fetched, locals,
                   collections, last_writer, stats_file, upload_images>>

NextPartial == CallFilterPartial

SpecPartial == InitPartial /\ [][NextPartial]_vars

\* Bucket b has upload rows and a timeout row younger than
\* TIMEOUT_UPLOADS_SEC.
FreshBucket(b) ==
    /\ \E r \in uploads : r.bucket = b
    /\ \E r \in table_timeout : r.name = b
    /\ \A r \in table_timeout : r.name = b => now - r.timestamp < TIMEOUT_UPLOADS_SEC

\* C26: filter_collections calls list_uploads for exactly the buckets whose
\* cached uploads are missing or expired; the upload rows and the timeout row
\* of a fresh bucket are the same after the call as before.
C26_PartialRefresh ==
    [][(fn_out = None /\ fn_out' # None /\ fn_in # None /\ fn_in.fn = "filter_collections")
          => /\ fn_out'[1] = "return"
             /\ \A b \in Buckets :
                   /\ FreshBucket(b) <=> b \notin fn_out'[2].listed
                   /\ FreshBucket(b)
                         => /\ {r \in uploads' : r.bucket = b} = {r \in uploads : r.bucket = b}
                            /\ {r \in table_timeout' : r.name = b}
                                  = {r \in table_timeout : r.name = b}]_vars

\* One bucket was listed and saved again in a call that left another, fresh
\* bucket unlisted, with its rows of before.
C26_Witness ==
    /\ fn_in # None /\ fn_in.fn = "filter_collections"
    /\ fn_out # None /\ fn_out[1] = "return"
    /\ \E b, f \in Buckets :
          /\ b \in fn_out[2].listed
          /\ [bucket |-> b, json |-> "valid", timestamp |-> now] \in uploads
          /\ f \notin fn_out[2].listed
          /\ [bucket |-> f, json |-> "valid", timestamp |-> TIMEOUT_UPLOADS_SEC] \in uploads
          /\ [name |-> f, timestamp |-> TIMEOUT_UPLOADS_SEC] \in table_timeout

\* --------------------------------------------- concurrent queries
\* Each caller runs filter_collections for the collection of one bucket;
\* fn_in[c] holds the bucket.  The steps of a caller: db.get_uploads, then,
\* when it gave nothing, list_uploads_thread and db.save_uploads.  No lock is
\* taken on the way (sparcd.py:1015-1033, query_helpers.py:150-217).
InitHerd ==
    /\ now = 1
    /\ ms = 0
    /\ ServerInit
    /\ collections = {}
    /\ uploads = {}
    /\ table_timeout = {}
    /\ upload_images = {}
    /\ fn_in \in [Callers -> {[fn |-> "filter_collections", bucket |-> b] : b \in Buckets}]
    /\ fn_out = [c \in Callers |-> None]

HerdLeaves == <<fn_in, now, ms, db_locks, lk, lock_id, tries, slept, exc, loaded_colls,
                loaded_stats, save_ret, collections, last_writer, stats_file, upload_images>>

\* query_helpers.py:167-184: the first loop.
FCGetUploads(c) ==
    /\ pc[c] = "idle"
    /\ op' = [op EXCEPT ![c] = "query"]
    /\ IF GetUploads(fn_in[c].bucket, TIMEOUT_UPLOADS_SEC) = None
       THEN /\ pc' = [pc EXCEPT ![c] = "fc_list"]
            /\ UNCHANGED fn_out
       ELSE /\ pc' = [pc EXCEPT ![c] = "done"]
            /\ fn_out' = [fn_out EXCEPT ![c] = Returned({fn_in[c].bucket})]
    /\ UNCHANGED <<fetched, uploads, table_timeout, HerdLeaves>>

\* query_helpers.py:187-193: the task of the bucket lists its uploads on S3.
FCList(c) ==
    /\ pc[c] = "fc_list"
    /\ fetched' = [fetched EXCEPT ![c] = TRUE]
    /\ pc' = [pc EXCEPT ![c] = "fc_save"]
    /\ UNCHANGED <<op, fn_out, uploads, table_timeout, HerdLeaves>>

\* query_helpers.py:194-211: save_uploads and filter_uploads.
FCSave(c) ==
    /\ pc[c] = "fc_save"
    /\ uploads' = UploadsSaved({fn_in[c].bucket})
    /\ table_timeout' = TimeoutsSaved({fn_in[c].bucket})
    /\ fn_out' = [fn_out EXCEPT ![c] = Returned({fn_in[c].bucket})]
    /\ pc' = [pc EXCEPT ![c] = "done"]
    /\ UNCHANGED <<op, fetched, HerdLeaves>>

NextHerd ==
    \/ \E c \in Callers : FCGetUploads(c)
    \/ \E c \in Callers : FCList(c)
    \/ \E c \in Callers : FCSave(c)

SpecHerd == InitHerd /\ [][NextHerd]_vars

\* C27: of the concurrent queries over a bucket whose uploads are not
\* cached, at most one lists the uploads of the bucket on S3.
C27_NoHerdOnUploads ==
    \A c, d \in Callers :
        (c # d /\ op[c] = "query" /\ op[d] = "query"
           /\ fn_in[c].bucket = fn_in[d].bucket /\ fetched[c])
           => ~fetched[d]

\* ------------------------------------------------ the end of the wait
\* C28: the poll of a waiting caller that finds a fresh snapshot with rows
\* ends its wait: the caller is through with the payloads of the rows in the
\* store, and sleeps and polls no more.
C28_ReturnOnFirstFresh ==
    [][\A c \in Callers :
          (WaiterSteps(c) /\ op[c] = "coll"
             /\ collections # {}
             /\ \A r \in collections : now - r.timestamp < TIMEOUT_COLLECTIONS_SEC)
             => /\ pc'[c] = "done"
                /\ loaded_colls'[c] = Some({r.json : r \in collections})
                /\ LoadCollectionsReturn(c)' = loaded_colls'[c]
                /\ tries'[c] = 0 /\ slept'[c] = 0
                /\ ~fetched'[c]]_vars

\* A caller that waited is through with the snapshot another caller saved,
\* before its tenth poll was due.
C28_Witness ==
    \E c, d \in Callers :
        /\ c # d
        /\ op[c] = "coll" /\ pc[c] = "done" /\ ~fetched[c] /\ ~exc[c]
        /\ last_writer = d /\ fetched[d]
        /\ collections # {}
        /\ loaded_colls[c] = Some({r.json : r \in collections})
        /\ NowMs < MsPerSec + MAX_COLL_FETCH_WAIT_SEC * MsPerSec

\* --------------------------------------- upload_save, upload_images_save
\* spdsqlite.py:389-491 and 538-607 on one connection.  fn_out follows the
\* call: None (not begun), <<"txn", [uploads, upload_images]>> (the two tables
\* as the open transaction has them), Returned(v).  exc[OneCaller] tells that
\* a statement of the call raised sqlite3.Error.

\* The one upload the calls are about: its row id and its hash_id.
TheUploadId == 1
TheHashId == "h"

ImageKeys == 1..MaxRows

UploadRow(json) == [id |-> TheUploadId, hash_id |-> TheHashId, json |-> json]
ImageRows(ks) == {[uploads_id |-> TheUploadId, key |-> k] : k \in ks}

\* The two tables a call may find: no row of the upload, or its row and its
\* image rows.
ImageTables ==
    {[uploads |-> {}, upload_images |-> {}]}
       \cup {[uploads |-> {UploadRow("old")}, upload_images |-> ImageRows(ks)] :
                ks \in SUBSET ImageKeys}

InitImages ==
    /\ now = 2
    /\ ms = 0
    /\ ServerInit
    /\ collections = {}
    /\ table_timeout = {}
    /\ \E t \in ImageTables :
          /\ uploads = t.uploads
          /\ upload_images = t.upload_images
          /\ fn_in \in {[fn |-> "upload_save", upload_json |-> "new", before |-> t]}
                         \cup {[fn |-> "upload_images_save", upload_id |-> TheUploadId,
                                images |-> ks, before |-> t] : ks \in SUBSET ImageKeys}
    /\ fn_out = None

ImagesLeaves == <<fn_in, now, ms, db_locks, lk, lock_id, pc, fetched, op, tries, slept,
                  loaded_colls, loaded_stats, save_ret, collections, last_writer, stats_file,
                  table_timeout>>

Committed == [uploads |-> uploads, upload_images |-> upload_images]
ImagesTxn == fn_out # None /\ fn_out[1] = "txn"
Raised == [exc EXCEPT ![OneCaller] = TRUE]

\* upload_save, 405-420: SELECT id ... WHERE hash_id=?, then
\* DELETE FROM uploads WHERE hash_id=?
UploadDelete ==
    /\ fn_in.fn = "upload_save"
    /\ fn_out = None
    /\ fn_out' = <<"txn", [uploads |-> {r \in uploads : r.hash_id # TheHashId},
                           upload_images |-> upload_images]>>
    /\ UNCHANGED <<exc, uploads, upload_images, ImagesLeaves>>

\* upload_save, 440-456: DELETE FROM upload_images WHERE uploads_id=? for the
\* ids the SELECT gave.
UploadDeleteImages ==
    /\ fn_in.fn = "upload_save"
    /\ ImagesTxn
    /\ fn_out[2].uploads = {}
    /\ fn_out[2].upload_images # {}
    /\ LET upload_ids == {r.id : r \in {u \in uploads : u.hash_id = TheHashId}}
       IN  fn_out' = <<"txn", [fn_out[2] EXCEPT !.upload_images =
                                  {r \in @ : r.uploads_id \notin upload_ids}]>>
    /\ UNCHANGED <<exc, uploads, upload_images, ImagesLeaves>>

\* upload_save, 421-438 and 445-464: a DELETE fails ten times with
\* SQLITE_BUSY, or once with another error: rollback, return False.
UploadDeleteFail ==
    /\ fn_in.fn = "upload_save"
    /\ \/ fn_out = None
       \/ ImagesTxn /\ fn_out[2].uploads = {} /\ fn_out[2].upload_images # {}
    /\ exc' = Raised
    /\ fn_out' = Returned(FALSE)
    /\ UNCHANGED <<uploads, upload_images, ImagesLeaves>>

\* upload_save, 467-491: the INSERT succeeds; commit; return cursor.lastrowid.
UploadInsert ==
    /\ fn_in.fn = "upload_save"
    /\ ImagesTxn
    /\ fn_out[2].upload_images = {}
    /\ uploads' = fn_out[2].uploads \cup {UploadRow(fn_in.upload_json)}
    /\ upload_images' = fn_out[2].upload_images
    /\ fn_out' = Returned(Some(TheUploadId))
    /\ UNCHANGED <<exc, ImagesLeaves>>

\* upload_save, 467-491: the INSERT raises sqlite3.Error.  success, set to
\* None at 468, stays None; "if success is False" at 479 does not hold, so
\* there is no rollback: commit, and cursor.lastrowid, which no INSERT has
\* set, is returned.
UploadInsertFail ==
    /\ fn_in.fn = "upload_save"
    /\ ImagesTxn
    /\ fn_out[2].upload_images = {}
    /\ exc' = Raised
    /\ uploads' = fn_out[2].uploads
    /\ upload_images' = fn_out[2].upload_images
    /\ fn_out' = Returned(None)
    /\ UNCHANGED ImagesLeaves

\* upload_images_save, 552-557: DELETE FROM upload_images WHERE uploads_id=?
ImagesDelete ==
    /\ fn_in.fn = "upload_images_save"
    /\ fn_out = None
    /\ fn_out' = <<"txn", [uploads |-> uploads,
                           upload_images |-> {r \in upload_images :
                                                r.uploads_id # fn_in.upload_id}]>>
    /\ UNCHANGED <<exc, uploads, upload_images, ImagesLeaves>>

\* upload_images_save, 558-575: the DELETE fails: rollback, return False.
ImagesDeleteFail ==
    /\ fn_in.fn = "upload_images_save"
    /\ fn_out = None
    /\ exc' = Raised
    /\ fn_out' = Returned(FALSE)
    /\ UNCHANGED <<uploads, upload_images, ImagesLeaves>>

\* upload_images_save, 588: executemany has inserted some of the rows.
ImagesInsertSome ==
    /\ fn_in.fn = "upload_images_save"
    /\ ImagesTxn
    /\ fn_out[2].upload_images = {}
    /\ \E ks \in SUBSET fn_in.images :
          /\ ks # {}
          /\ fn_out' = <<"txn", [fn_out[2] EXCEPT !.upload_images = ImageRows(ks)]>>
    /\ UNCHANGED <<exc, uploads, upload_images, ImagesLeaves>>

\* upload_images_save, 586-607: executemany raises sqlite3.Error before its
\* last row.  success, set to None at 586, stays None; "if success is False"
\* at 595 does not hold, so there is no rollback: commit, return True.
ImagesInsertFail ==
    /\ fn_in.fn = "upload_images_save"
    /\ ImagesTxn
    /\ fn_out[2].upload_images # ImageRows(fn_in.images)
    /\ exc' = Raised
    /\ uploads' = fn_out[2].uploads
    /\ upload_images' = fn_out[2].upload_images
    /\ fn_out' = Returned(TRUE)
    /\ UNCHANGED ImagesLeaves

\* upload_images_save, 588-607: executemany is through; commit; return True.
ImagesCommit ==
    /\ fn_in.fn = "upload_images_save"
    /\ ImagesTxn
    /\ uploads' = fn_out[2].uploads
    /\ upload_images' = ImageRows(fn_in.images)
    /\ fn_out' = Returned(TRUE)
    /\ UNCHANGED <<exc, ImagesLeaves>>

NextImages ==
    \/ UploadDelete
    \/ UploadDeleteImages
    \/ UploadDeleteFail
    \/ UploadInsert
    \/ UploadInsertFail
    \/ ImagesDelete
    \/ ImagesDeleteFail
    \/ ImagesInsertSome
    \/ ImagesInsertFail
    \/ ImagesCommit

SpecImages == InitImages /\ [][NextImages]_vars

\* C29: when a statement of upload_save or upload_images_save has failed and
\* the call is over, the committed upload and image rows are the ones from
\* before the call: the old rows are not gone and no part of the new rows is
\* there.
C29_AllOrNothing ==
    (exc[OneCaller] /\ fn_out # None /\ fn_out[1] = "return")
       => Committed = fn_in.before

\* ------------------------------------------------- the life of a lock row
\* The row of name n that the read-back of lock_get sees stores the token of
\* a caller: one that was given it and has not released it, or one whose
\* lock_get is between its write and its read-back.
Holder(n) ==
    \E c \in Callers :
        \/ lock_id[c][n] # NULL /\ lock_id[c][n] = FirstRow(n).value
        \/ lk[c].pc = "read" /\ lk[c].name = n /\ lk[c].lock_value = FirstRow(n).value

\* A lock_get on name n ended on an sqlite error after its write.
LeftByError(n) ==
    \E c \in Callers :
        lk[c].name = n /\ lk[c].err /\ lk[c].at # NULL /\ lk[c].lock_value = FirstRow(n).value

\* The row of a name is unlocked (token and timestamp null, nobody holds it,
\* the UPDATE of lock_get matches it at any age) or locked (token and
\* timestamp set, stored by a lock_get that has not been released).
RowState ==
    /\ \A i \in 1..Len(db_locks) : (db_locks[i].value = NULL) <=> (db_locks[i].timestamp = NULL)
    /\ \A n \in LockNames :
          RowIdx(n) # {} =>
             /\ FirstRow(n).value = NULL
                   => /\ ~Holder(n)
                      /\ \A s \in {0, MAX_LOCK_WAIT_TIME_SEC} : UpdMatches(FirstRow(n), n, s)
             /\ FirstRow(n).value # NULL => (Holder(n) \/ LeftByError(n))

\* The steps of the life of a lock row.
RowSteps ==
    /\ Len(db_locks') >= Len(db_locks)
    /\ \A i \in 1..Len(db_locks) : db_locks'[i].name = db_locks[i].name
    /\ \A c \in Callers : \A n \in LockNames :
          /\ (/\ lk[c].pc = "write" /\ lk[c].name = n /\ ~lk[c].lock_exists
              /\ lk'[c].pc # "write" /\ ~lk'[c].err)
                => /\ db_locks' = Append(db_locks, [name |-> n, value |-> lk[c].lock_value,
                                                    timestamp |-> now])
                   /\ RowIdx(n)' # {}
          /\ (Releases(c, n) /\ RowIdx(n) # {} /\ FirstRow(n).value = lock_id[c][n])
                => /\ FirstRow(n)' = [name |-> n, value |-> NULL, timestamp |-> NULL]
                   /\ Len(db_locks') = Len(db_locks)
          /\ (/\ lk[c].pc = "write" /\ lk[c].name = n /\ lk[c].lock_exists
              /\ FirstRow(n).value = NULL
              /\ lk'[c].pc # "write" /\ ~lk'[c].err)
                => /\ lk'[c].pc = "read"
                   /\ FirstRow(n)' = [name |-> n, value |-> lk[c].lock_value, timestamp |-> now]
    /\ Len(db_locks') > Len(db_locks)
          => \E c \in Callers : lk[c].pc = "write" /\ ~lk[c].lock_exists /\ lk'[c].pc # "write"

\* C30: the row of a name is made by the lock_get that finds no row of the
\* name, and no row is ever removed or renamed; in every state a row's token
\* is null exactly when its timestamp is null, a null token is held by nobody
\* and is taken by the UPDATE of lock_get at any age, and a token that is set
\* is held by a caller; the release by the owner sets both columns to null,
\* and the UPDATE of the next lock_get on a null token stores the caller's
\* token at any time of the clock.
C30_LockRowLifecycle == []RowState /\ [][RowSteps]_vars

\* A row that its owner released has been taken, at least
\* MAX_LOCK_WAIT_TIME_SEC later, by the lock_get of another caller, which
\* was given the token.
C30_Witness ==
    \E c, d \in Callers : \E n \in LockNames :
        /\ c # d
        /\ lk[c].name = n /\ lk[c].rel = "hit" /\ pc[c] = "done"
        /\ lk[d].name = n /\ lk[d].lock_exists
        /\ lock_id[d][n] # NULL
        /\ Len(db_locks) = 1
        /\ FirstRow(n) = [name |-> n, value |-> lock_id[d][n], timestamp |-> now]
        /\ now >= 1 + MAX_LOCK_WAIT_TIME_SEC

\* ------------------------------------------- lock_get under sqlite errors
\* spdsqlite.py:1829-1852 with the OperationalError branch step by step:
\* tries[c] is the "tries" of the lock_get of caller c, and sleep(1) stops
\* the caller for a second of the clock.  One caller makes the calls.

\* The UPDATE or INSERT raises sqlite3.OperationalError: tries += 1, and up to
\* the tenth time sleep(1) and the statement again.
AcqOperationalError(c) ==
    /\ lk[c].pc = "write"
    /\ tries[c] < LOCK_WRITE_RETRIES
    /\ tries' = [tries EXCEPT ![c] = @ + 1]
    /\ now' = now + 1
    /\ UNCHANGED <<call, ms, db_locks, lk, lock_id, pc, fetched, op, slept, exc, loaded_colls,
                   loaded_stats, save_ret, stores>>

\* The eleventh OperationalError: print, return None.
AcqGiveUp(c) ==
    /\ lk[c].pc = "write"
    /\ tries[c] = LOCK_WRITE_RETRIES
    /\ LockReturn(c, lk[c], NULL, TRUE)
    /\ UNCHANGED <<call, now, ms, db_locks>>

NextAcquire ==
    \/ TickMs
    \/ \E c \in {OneCaller} : DrvGet(c)
    \/ \E c \in {OneCaller} : LockCount(c)
    \/ \E c \in {OneCaller} : LockWrite(c)
    \/ \E c \in {OneCaller} : AcqOperationalError(c)
    \/ \E c \in {OneCaller} : AcqGiveUp(c)
    \/ \E c \in {OneCaller} : LockReadBack(c)
    \/ \E c \in {OneCaller} : LockReadErr(c)
    \/ \E c \in {OneCaller} : DrvRelease(c)

SpecAcquire == InitLock /\ [][NextAcquire]_vars

\* C31, as stated: no step of a lock_get sleeps or runs its write again: the
\* clock stands still while a caller is in lock_get and its count of further
\* attempts stays 0.
C31_NeverParks ==
    [][\A c \in Callers :
          lk[c].pc \in {"count", "write", "read"} => (now' = now /\ tries'[c] = 0)]_vars

\* ------------------------------------------- the collections of one user
\* s3_access.py:132-145, sparcd_utils.py:338-347, sparcd_collections.py:124-150.
\* A permissions entry is None or Some(dict); keys is the set of the dict's
\* keys.  A collection of the cache is [id, permissions, allPermissions].
Users == {"u1", "u2"}

PermEntries ==
    {None, Some([keys |-> {"readProperty"}, usernameProperty |-> "", readProperty |-> "r"])}
       \cup {Some([keys |-> {"usernameProperty", "readProperty"}, usernameProperty |-> u,
                   readProperty |-> r]) : u \in Users, r \in {"r"}}
       \cup {Some([keys |-> {"usernameProperty", "readProperty"}, usernameProperty |-> "u1",
                   readProperty |-> "rw"])}

PermLists == UNION {[1..n -> PermEntries] : n \in 0..MaxPerms}

\* one_perm and 'usernameProperty' in one_perm and
\* one_perm['usernameProperty'] == user
NamesUser(one_perm, user) ==
    /\ one_perm # None
    /\ "usernameProperty" \in one_perm[1].keys
    /\ one_perm[1].usernameProperty = user

\* The loop with break over the entries: the first entry of the user, or None.
FoundPerm(perms, user) ==
    LET hits == {i \in 1..Len(perms) : NamesUser(perms[i], user)}
    IN  IF hits = {} THEN None
        ELSE perms[CHOOSE i \in hits : \A k \in hits : i <= k]

\* get_user_collections and normalize_collection for one bucket whose
\* permissions file holds perms, fetched with the credentials of user.
FetchedCollection(id, perms, user) ==
    [id |-> id, permissions |-> FoundPerm(perms, user), allPermissions |-> perms]

\* The cache after a fetch by user of the buckets whose files are files.
FetchedCollections(files, user) ==
    [i \in 1..Len(files) |-> FetchedCollection(i, files[i], user)]

\* "if not admin in [True, False]: admin = False", then "admin is True".
IsAdmin(admin) == admin = "True"

\* Variant: the user's permissions are the ones found at the fetch.
UserPermissions_Cached(one_coll, user_name) == one_coll.permissions

\* new_coll['permissions']: None, or the first entry of allPermissions that
\* names user_name.
UserPermissions(one_coll, user_name) ==
    IF Len(one_coll.allPermissions) = 0 THEN None
    ELSE FoundPerm(one_coll.allPermissions, user_name)

\* Variant: every collection is appended.
KeepsCollection_All(one_coll, admin, user_name) == TRUE

\* "if admin is True or user_has_permissions is True"
KeepsCollection(one_coll, admin, user_name) ==
    IsAdmin(admin) \/ UserPermissions(one_coll, user_name) # None

\* The loop of load_collections over loaded_colls, here colls.
UserColl(colls, admin, user_name) ==
    LET kept == SelectSeq(colls, LAMBDA c : KeepsCollection(c, admin, user_name))
    IN  [i \in 1..Len(kept) |->
            [kept[i] EXCEPT !.permissions = UserPermissions(kept[i], user_name)]]

\* The permissions files of one or two buckets, the user whose credentials
\* filled the cache, and the caller: admin as True, False or another value.
InitPerm ==
    /\ now = 1
    /\ ms = 0
    /\ ServerInit
    /\ collections = {}
    /\ uploads = {}
    /\ table_timeout = {}
    /\ upload_images = {}
    /\ \E n \in 1..2 : \E files \in [1..n -> PermLists] : \E fetcher \in Users :
          fn_in \in {[fn |-> "load_collections", admin |-> a, user_name |-> u,
                      fetcher |-> fetcher, files |-> files,
                      loaded_colls |-> FetchedCollections(files, fetcher)] :
                        a \in {"True", "False", "1"}, u \in Users}
    /\ fn_out = None

\* load_collections with a warm cache.
CallLoadCollections ==
    /\ fn_in.fn = "load_collections"
    /\ fn_out = None
    /\ fn_out' = Returned(UserColl(fn_in.loaded_colls, fn_in.admin, fn_in.user_name))
    /\ UNCHANGED <<fn_in, now, ms, db_locks, lk, lock_id, pc, fetched, locals, stores>>

NextPerm == CallLoadCollections

SpecPerm == InitPerm /\ [][NextPerm]_vars

\* An entry of the collection's allPermissions has usernameProperty u.
Permits(coll, u) ==
    \E i \in 1..Len(coll.allPermissions) :
        LET e == coll.allPermissions[i]
        IN  e # None /\ "usernameProperty" \in e[1].keys /\ e[1].usernameProperty = u

\* The ids of the collections of a list, in its order.
IdsOf(colls) == [i \in 1..Len(colls) |-> colls[i].id]

\* C32: for a caller that is not admin the collections returned are, in the
\* order of the cache, exactly those with an allPermissions entry of the
\* caller's name; for admin True they are all collections of the cache.
C32_VisibleByPermission ==
    fn_out # None =>
       LET cache == fn_in.loaded_colls
           shown == IF fn_in.admin = "True" THEN cache
                    ELSE SelectSeq(cache, LAMBDA c : Permits(c, fn_in.user_name))
       IN  IdsOf(fn_out[2]) = IdsOf(shown)

\* A caller without admin rights was given one of two cached collections:
\* the one that names it, not the one that names only the other user.
C32_Witness ==
    /\ fn_out # None
    /\ fn_in.admin = "False"
    /\ Len(fn_in.loaded_colls) = 2
    /\ IdsOf(fn_out[2]) = <<2>>
    /\ Permits(fn_in.loaded_colls[1], fn_in.fetcher)
    /\ fn_in.fetcher # fn_in.user_name

\* C36: the permissions of every collection returned to a user are the
\* first allPermissions entry of that user's name, or None when there is
\* none (the caller is admin), whatever entry the fetch left in the cache;
\* and the result is the same for a cache that any other user filled.
C36_NoPermissionLeak ==
    fn_out # None =>
       /\ \A i \in 1..Len(fn_out[2]) :
             LET coll == fn_out[2][i]
                 own == {k \in 1..Len(coll.allPermissions) :
                            /\ coll.allPermissions[k] # None
                            /\ "usernameProperty" \in coll.allPermissions[k][1].keys
                            /\ coll.allPermissions[k][1].usernameProperty = fn_in.user_name}
             IN  IF own = {} THEN coll.permissions = None
                 ELSE \E k \in own : /\ coll.permissions = coll.allPermissions[k]
                                     /\ \A j \in own : k <= j
       /\ \A other \in Users :
             UserColl(FetchedCollections(fn_in.files, other), fn_in.admin, fn_in.user_name)
                = fn_out[2]

\* The cache was filled by another user, whose entry it holds, and the
\* caller was given the collection with its own, different entry.
C36_Witness ==
    /\ fn_out # None
    /\ fn_in.fetcher # fn_in.user_name
    /\ \E i \in 1..Len(fn_out[2]) :
          LET cached == fn_in.loaded_colls[fn_out[2][i].id]
          IN  /\ cached.permissions # None
              /\ cached.permissions[1].usernameProperty = fn_in.fetcher
              /\ fn_out[2][i].permissions # None
              /\ fn_out[2][i].permissions[1].usernameProperty = fn_in.user_name
              /\ fn_out[2][i].permissions # cached.permissions

\* ---------------------------------------------- collection_update and age
\* C33: collection_update with an integer timeout, for a collection whose row
\* is younger than the timeout, returns True and gives the row the new
\* payload, with the row's timestamp and every other row as they were; for a
\* missing row or one that has reached the timeout it returns False and the
\* table is unchanged.
C33_UpdateRespectsTTL ==
    [][(/\ fn_in.fn = "collection_update"
        /\ fn_out = None /\ fn_out' # None
        /\ fn_in.timeout_sec.kind = "int")
          => LET row == {r \in collections : r.coll_id = 1}
                 young == {r \in row : now - r.timestamp < fn_in.timeout_sec.value}
             IN  IF young # {}
                 THEN /\ fn_out' = Returned(TRUE)
                      /\ collections' = (collections \ row)
                            \cup {[coll_id |-> 1, json |-> 0, timestamp |-> r.timestamp] : r \in row}
                 ELSE /\ fn_out' = Returned(FALSE)
                      /\ collections' = collections]_vars

\* The payload of a row that was written two seconds ago was replaced under
\* a timeout of three seconds, next to another row.
C33_Witness ==
    /\ fn_in.fn = "collection_update"
    /\ fn_in.timeout_sec = [kind |-> "int", value |-> 3]
    /\ fn_out = Returned(TRUE)
    /\ [coll_id |-> 1, json |-> 0, timestamp |-> now - 2] \in collections
    /\ \E r \in collections : r.coll_id # 1 /\ r.json = r.coll_id

\* ----------------------------------------------------- get_later_timestamp
\* sparcd_utils.py:119-159.  An uploadDate is None or Some([date |-> [year,
\* month, day], time |-> [hour, minute, second, nano]]), every key present.
UploadDates ==
    {[date |-> [year |-> y, month |-> m, day |-> d],
      time |-> [hour |-> h, minute |-> 0, second |-> 0, nano |-> 0]] :
        y \in {2023, 2024}, m \in {1, 12}, d \in {1, 28}, h \in {0, 23}}

\* The tests of the function in their order: each field on its own.
GetLaterTimestamp(cur_ts, new_ts) ==
    IF cur_ts = None THEN new_ts
    ELSE IF new_ts = None THEN cur_ts
    ELSE LET c == cur_ts[1]
             n == new_ts[1]
         IN  IF c.date.year < n.date.year THEN new_ts
             ELSE IF c.date.month < n.date.month THEN new_ts
             ELSE IF c.date.day < n.date.day THEN new_ts
             ELSE IF c.time.hour < n.time.hour THEN new_ts
             ELSE IF c.time.minute < n.time.minute THEN new_ts
             ELSE IF c.time.second < n.time.second THEN new_ts
             ELSE IF c.time.nano < n.time.nano THEN new_ts
             ELSE cur_ts

\* normalize_collection, 348-357: last_upload_date over the first k uploads.
RECURSIVE LastUploadDate(_, _)
LastUploadDate(upload_dates, k) ==
    IF k = 0 THEN None
    ELSE GetLaterTimestamp(LastUploadDate(upload_dates, k - 1), upload_dates[k])

InitLater ==
    /\ now = 1
    /\ ms = 0
    /\ ServerInit
    /\ collections = {}
    /\ uploads = {}
    /\ table_timeout = {}
    /\ upload_images = {}
    /\ fn_in \in {[fn |-> "get_later_timestamp", cur_ts |-> c, new_ts |-> n] :
                     c, n \in {None} \cup {Some(t) : t \in UploadDates}}
                    \cup {[fn |-> "normalize_collection", uploads |-> <<Some(a), Some(b)>>] :
                             a, b \in UploadDates}
    /\ fn_out = None

CallGetLaterTimestamp ==
    /\ fn_in.fn = "get_later_timestamp"
    /\ fn_out = None
    /\ fn_out' = Returned(GetLaterTimestamp(fn_in.cur_ts, fn_in.new_ts))
    /\ UNCHANGED <<fn_in, now, ms, db_locks, lk, lock_id, pc, fetched, locals, stores>>

CallNormalizeCollection ==
    /\ fn_in.fn = "normalize_collection"
    /\ fn_out = None
    /\ fn_out' = Returned(LastUploadDate(fn_in.uploads, Len(fn_in.uploads)))
    /\ UNCHANGED <<fn_in, now, ms, db_locks, lk, lock_id, pc, fetched, locals, stores>>

NextLater == CallGetLaterTimestamp \/ CallNormalizeCollection

SpecLater == InitLater /\ [][NextLater]_vars

\* The hours of a date and time since the start of year 0 of a calendar of
\* months of 31 days: later moments have greater values.
Moment(t) == (((t.date.year * 12 + t.date.month) * 31 + t.date.day) * 24) + t.time.hour

\* C34, as stated: get_later_timestamp gives the later of its two arguments
\* (cur_ts when they are equal, the other when one is None), and the
\* last_upload_ts of normalize_collection is the latest of the upload dates.
C34_LaterTimestamp ==
    fn_out # None =>
       IF fn_in.fn = "get_later_timestamp"
       THEN IF fn_in.cur_ts = None THEN fn_out[2] = fn_in.new_ts
            ELSE IF fn_in.new_ts = None THEN fn_out[2] = fn_in.cur_ts
            ELSE fn_out[2] = IF Moment(fn_in.new_ts[1]) > Moment(fn_in.cur_ts[1])
                             THEN fn_in.new_ts ELSE fn_in.cur_ts
       ELSE \A i \in 1..Len(fn_in.uploads) :
               Moment(fn_out[2][1]) >= Moment(fn_in.uploads[i][1])

\* ------------------------------------------------------ one row per name
\* C35, as stated: db_locks holds at most one row of each lock name.
C35_OneRowPerName ==
    \A n \in LockNames : Cardinality(RowIdx(n)) <= 1

\* ------------------------------------------------- the order of the filters
\* The filters of a list that may name a filter twice.
OrderPool ==
    {<<"years", [yearStart |-> 2020, yearEnd |-> 2021]>>,
     <<"years", [yearStart |-> 2019, yearEnd |-> 2020]>>,
     <<"startDate", StartAware>>,
     <<"endDate", EndAware>>}

\* The list with its filters in the order perm.
Permuted(filters, perm) == [i \in 1..Len(filters) |-> filters[perm[i]]]

OrdersOf(n) == {f \in [1..n -> 1..n] : \A i, j \in 1..n : f[i] = f[j] => i = j}

InitOrder ==
    /\ now = 1
    /\ ms = 0
    /\ ServerInit
    /\ collections = {}
    /\ uploads = {}
    /\ table_timeout = {}
    /\ upload_images = {}
    /\ \E n \in 2..3 :
          fn_in \in {[fn |-> "filter_uploads",
                      uploads_info |-> <<[name |-> "u1", images |-> i1]>>,
                      filters |-> f, perm |-> q] :
                        i1 \in ImageLists(1), f \in [1..n -> OrderPool], q \in OrdersOf(n)}
    /\ fn_out = None

\* filter_uploads with the list as given, and with the list permuted.
CallFilterPermuted ==
    /\ fn_in.fn = "filter_uploads"
    /\ fn_out = None
    /\ fn_out' = Returned([given |-> FilterUploads(fn_in.uploads_info, fn_in.filters),
                           permuted |-> FilterUploads(fn_in.uploads_info,
                                                      Permuted(fn_in.filters, fn_in.perm))])
    /\ UNCHANGED <<fn_in, now, ms, db_locks, lk, lock_id, pc, fetched, locals, stores>>

NextOrder == CallFilterPermuted

SpecOrder == InitOrder /\ [][NextOrder]_vars

\* C37, as stated: filter_uploads gives the same uploads with the same images
\* for a list of filters and for every permutation of it.
C37_OrderIndependent ==
    fn_out # None => fn_out[2].given = fn_out[2].permuted

\* ------------------------------------------ species_stats and the uploads
\* sparcd_utils.py:781-840.  A bucket name is the sequence of its characters.
SPARCD_PREFIX == <<"s", "p", "a", "r", "c", "d", "-">>

BucketNames == {SPARCD_PREFIX \o <<x>> : x \in {"a", "b", "c"}}

\* uploads_results['bucket'][len(SPARCD_PREFIX):]
AfterPrefix(bucket) == SubSeq(bucket, Len(SPARCD_PREFIX) + 1, Len(bucket))

\* The bucket argument of db.save_uploads in species_stats (line 827).
SaveUploadsBucket(bucket) == AfterPrefix(bucket)

\* 797-808: the buckets of colls that db.get_uploads has nothing for.
StatsToFetch(colls) == {b \in colls : GetUploads(b, TIMEOUT_UPLOADS_SEC) = None}

\* 820-828: the arguments of db.save_uploads, for the listed buckets in which
\* list_uploads found uploads.
StatsToSave(colls, origin) ==
    {SaveUploadsBucket(b) : b \in {x \in StatsToFetch(colls) : origin[x] = "ok"}}

InitStats ==
    /\ now = 1
    /\ ms = 0
    /\ ServerInit
    /\ collections = {}
    /\ uploads = {}
    /\ table_timeout = {}
    /\ upload_images = {}
    /\ fn_in \in {[fn |-> "species_stats", colls |-> cs, origin |-> o] :
                     cs \in (SUBSET BucketNames) \ {{}},
                     o \in [BucketNames -> {"ok", "no_uploads"}]}
    /\ fn_out = Returned(<<>>)

StatsLeaves == <<fn_in, ms, db_locks, lk, lock_id, pc, fetched, locals,
                 collections, last_writer, stats_file, upload_images>>

\* species_stats(db, colls, ...): the calls so far are in fn_out, each with
\* the buckets list_uploads was called for and the time of the call.
CallSpeciesStats ==
    /\ fn_in.fn = "species_stats"
    /\ Len(fn_out[2]) < MaxCalls
    /\ fn_out' = Returned(Append(fn_out[2],
                                 [listed |-> StatsToFetch(fn_in.colls), at |-> now]))
    /\ uploads' = UploadsSaved(StatsToSave(fn_in.colls, fn_in.origin))
    /\ table_timeout' = TimeoutsSaved(StatsToSave(fn_in.colls, fn_in.origin))
    /\ UNCHANGED <<now, StatsLeaves>>

\* Time passes between two calls: a second, or up to the timeout of the
\* uploads.
StatsTick ==
    /\ fn_in.fn = "species_stats"
    /\ Len(fn_out[2]) = 1
    /\ now = fn_out[2][1].at
    /\ \E dt \in {1, TIMEOUT_UPLOADS_SEC - 1, TIMEOUT_UPLOADS_SEC} : now' = now + dt
    /\ UNCHANGED <<fn_out, uploads, table_timeout, StatsLeaves>>

NextStats == CallSpeciesStats \/ StatsTick

SpecStats == InitStats /\ [][NextStats]_vars

\* C38, as stated: a bucket whose uploads a species_stats call listed and
\* saved is not listed again by a call made less than TIMEOUT_UPLOADS_SEC
\* later.
C38_KeyRoundTrip ==
    \A i, k \in 1..Len(fn_out[2]) :
        (i < k /\ fn_out[2][k].at - fn_out[2][i].at < TIMEOUT_UPLOADS_SEC)
           => \A b \in fn_out[2][i].listed :
                 fn_in.origin[b] = "ok" => b \notin fn_out[2][k].listed

\* ------------------------------------------------ the order of the two locks
\* The ms time at which the sleep of waiting caller c returns: the k-th sleep
\* of either wait loop lasts k intervals, rounded up to the millisecond.
WakeOf(c) ==
    IF pc[c] = "coll_wait" THEN WakeMs(c)
    ELSE slept[c] + ((((tries[c] + 1) * MAX_STAT_FETCH_WAIT_SEC * MsPerSec * 2)
                      + ((MAX_STAT_FETCH_TRIES + 1) * MAX_STAT_FETCH_TRIES) - 1)
                     \div ((MAX_STAT_FETCH_TRIES + 1) * MAX_STAT_FETCH_TRIES))

\* Caller c is in time.sleep of one of the two wait loops.
Sleeping(c) == pc[c] \in {"coll_wait", "stats_wait"}

\* Time passes until the first of the sleeping callers wakes up.
TickLive ==
    \E c \in Callers :
        /\ Sleeping(c)
        /\ \A d \in Callers : Sleeping(d) => NowMs < WakeOf(d) /\ WakeOf(c) <= WakeOf(d)
        /\ now' = WakeOf(c) \div MsPerSec
        /\ ms' = WakeOf(c) % MsPerSec
        /\ UNCHANGED <<call, db_locks, lk, lock_id, pc, fetched, locals, stores>>

\* One step of thread c in load_species_stats or load_collections.
ThreadStep(c) ==
    \/ LockStep(c)
    \/ LCCheck(c)
    \/ CollSave(c)
    \/ CollSaveFail(c)
    \/ CollRaise(c)
    \/ CollRelease(c)
    \/ CollPoll(c)
    \/ SSCheck(c)
    \/ SSGenRelease(c)
    \/ SSGenRaise(c)
    \/ SSFinally(c)
    \/ SSSave(c)
    \/ SSPoll(c)

NextLive ==
    \/ TickLive
    \/ \E c \in Callers : ThreadStep(c)

\* Every thread is scheduled, the origin answers or fails, and a sleep ends.
SpecLive ==
    /\ Init
    /\ [][NextLive]_vars
    /\ WF_vars(TickLive)
    /\ \A c \in Callers : WF_vars(ThreadStep(c))

\* The lock caller c is asking for or sleeping on, "none" otherwise.
Wanted(c) ==
    IF pc[c] \in {"stats_lock", "stats_wait"} THEN "species_stats"
    ELSE IF pc[c] \in {"coll_lock", "coll_wait"} THEN "fetch_collection"
    ELSE "none"

\* Caller c wants a lock whose token caller d has.
WaitsFor(c, d) == c # d /\ Wanted(c) # "none" /\ lock_id[d][Wanted(c)] # NULL

\* A holder of fetch_collection wants no lock; whoever wants fetch_collection
\* holds at most species_stats; nobody wants a lock whose token they have.
LockOrder ==
    \A c \in Callers :
        /\ lock_id[c]["fetch_collection"] # NULL => Wanted(c) = "none"
        /\ Wanted(c) = "species_stats" => lock_id[c]["species_stats"] = NULL
        /\ \A d \in Callers : ~(WaitsFor(c, d) /\ WaitsFor(d, c))

AllDone == \A c \in Callers : pc[c] = "done"

\* C39: species_stats may be held while fetch_collection is requested, and
\* fetch_collection is never held while any lock is requested, so no two
\* callers of load_species_stats and load_collections wait for each other,
\* and every call comes to its end.
C39_NoDeadlock == []LockOrder /\ <>[]AllDone

\* A caller with the species_stats token sleeps on fetch_collection, which the
\* other caller has.
C39_Witness ==
    \E c \in Callers : \E d \in Callers :
        /\ lock_id[c]["species_stats"] # NULL
        /\ pc[c] = "coll_wait"
        /\ WaitsFor(c, d)

====
